---- MODULE Spec2Model ----
(***************************************************************************)
(* Model of the translation gateway: the input validator, the registry of *)
(* translators built from the configuration, the translators themselves   *)
(* and the retry loop of TranslatorService.Translate.                      *)
(*                                                                         *)
(* Strings that the code only compares or searches are kept as sequences  *)
(* of fragments (an error message) or of code points (a request text).    *)
(* An error value is the sequence of its layers, outermost first: a layer *)
(* is what one constructor contributes, fmt.Errorf with %w puts a layer   *)
(* in front of the error it wraps.  The nil error is the empty sequence;  *)
(* a *TranslationResponse is a sequence of zero (nil) or one record.      *)
(***************************************************************************)
EXTENDS Integers, Sequences, FiniteSets, TLC

----------------------------------------------------------------------------
(* Error values *)

Nil == <<>>

\* errors.New / fmt.Errorf without %w: one layer, no wrapped error
PlainErr(msg) == <<[kind |-> "plain", msg |-> msg]>>

\* &ValidationError{message}
NewValidationError(msg) == <<[kind |-> "validation", msg |-> msg]>>

\* ctx.Err(): context.Canceled or context.DeadlineExceeded
CtxErrText(c) == IF c = "deadline" THEN "context deadline exceeded" ELSE "context canceled"

CtxError(c) == <<[kind |-> c, msg |-> <<CtxErrText(c)>>]>>

\* fmt.Errorf(prefix + "%w", inner)
Errorf(prefix, inner) == <<[kind |-> "wrap", msg |-> prefix]>> \o inner

RECURSIVE ErrorMsg(_)
\* err.Error(): the text of every layer, in order
ErrorMsg(e) == IF e = <<>> THEN <<>> ELSE Head(e).msg \o ErrorMsg(Tail(e))

\* strings.Contains(s, fragment)
Contains(s, fragment) == \E i \in 1..Len(s) : s[i] = fragment

\* errors.Is(e, context.Canceled / context.DeadlineExceeded)
ErrorsIs(e, c) == \E i \in 1..Len(e) : e[i].kind = c

\* errors.Unwrap(e)
Unwrap(e) == IF e # <<>> /\ Head(e).kind = "wrap" THEN Tail(e) ELSE Nil

\* IsValidationError: a type assertion on the error itself, not on what it wraps
IsValidationError(e) == e # <<>> /\ Head(e).kind = "validation"

----------------------------------------------------------------------------
(* ValidationService *)

MaxTextBytes == 10000

\* bytes of the UTF-8 encoding of one code point
Utf8Len(cp) == IF cp < 128 THEN 1 ELSE IF cp < 2048 THEN 2 ELSE IF cp < 65536 THEN 3 ELSE 4

\* len(text): the bytes of the UTF-8 encoding of the text
ByteLen(text) ==
    LET n(k) == Cardinality({i \in 1..Len(text) : Utf8Len(text[i]) = k})
    IN  n(1) + 2 * n(2) + 3 * n(3) + 4 * n(4)

\* unicode.IsSpace
IsSpace(cp) ==
    \/ cp \in {9, 10, 11, 12, 13, 32, 133, 160, 5760, 8232, 8233, 8239, 8287, 12288}
    \/ (cp >= 8192 /\ cp <= 8202)

\* a trim that takes nothing away
TrimsToEmptyOnlyEmpty(text) == text = <<>>

\* strings.TrimSpace(text) == ""
TrimsToEmpty(text) == \A i \in 1..Len(text) : IsSpace(text[i])

\* len(strings.Fields(text)) == 0
NoFields(text) == \A i \in 1..Len(text) : IsSpace(text[i])

\* a check that lets no control character through, tab, line feed and carriage return included
containsInvalidCharactersStrict(text) ==
    \E i \in 1..Len(text) : text[i] < 32 \/ (text[i] >= 127 /\ text[i] <= 159)

containsInvalidCharacters(text) ==
    \E i \in 1..Len(text) :
        \/ (text[i] < 32 /\ text[i] # 9 /\ text[i] # 10 /\ text[i] # 13)
        \/ (text[i] >= 127 /\ text[i] <= 159)

\* the regexp class \s: [\t\n\f\r ]
IsRegexpSpace(cp) == cp \in {9, 10, 12, 13, 32}

\* regexp.MustCompile(`\s+`).ReplaceAllString(text, " "): of every run of \s one
\* character is left, and it is a space.  The positions of text that are left:
CollapsedPositions(text) ==
    {i \in 1..Len(text) : ~(IsRegexpSpace(text[i]) /\ i < Len(text) /\ IsRegexpSpace(text[i + 1]))}

\* the character the replacement leaves at a position it keeps
CollapsedAt(text, i) == IF IsRegexpSpace(text[i]) THEN 32 ELSE text[i]

IsAsciiLetter(cp) == (cp >= 65 /\ cp <= 90) \/ (cp >= 97 /\ cp <= 122)

containsEnglishCharacters(text) ==
    LET kept == CollapsedPositions(text)
        asciiCount == Cardinality({i \in kept : CollapsedAt(text, i) <= 127})
        totalCount == Cardinality(kept)
    IN  \/ \E i \in kept : IsAsciiLetter(CollapsedAt(text, i))
        \* float64(asciiCount)/float64(totalCount) > 0.8
        \/ (totalCount > 0 /\ 5 * asciiCount > 4 * totalCount)

isMostlyEnglish(text) == containsEnglishCharacters(text)

ValidateTextInput(text) ==
    IF TrimsToEmpty(text) THEN NewValidationError(<<"Text input cannot be empty">>)
    ELSE IF ByteLen(text) > MaxTextBytes
         THEN NewValidationError(<<"Text input is too long (maximum 10000 characters)">>)
    ELSE IF NoFields(text)
         THEN NewValidationError(<<"Text input cannot contain only whitespace">>)
    ELSE IF containsInvalidCharacters(text)
         THEN NewValidationError(<<"Text contains invalid characters">>)
    ELSE IF ~containsEnglishCharacters(text)
         THEN NewValidationError(<<"Text must contain English characters">>)
    ELSE IF ~isMostlyEnglish(text)
         THEN NewValidationError(<<"Text must be primarily in English">>)
    ELSE Nil

\* a model name is a string; the only blank names among the inputs are these
IsBlankModel(m) == m \in {"", " "}

\* strings.ToLower over the model names used here
FoldCase(m) == IF m = "GPT-3.5" THEN "gpt-3.5" ELSE IF m = "GPT-4" THEN "gpt-4" ELSE m

\* a comparison that ignores case
ValidateModelInputFold(m, supportedModels) ==
    IF IsBlankModel(m) THEN NewValidationError(<<"Model selection cannot be empty">>)
    ELSE IF \E sm \in supportedModels : FoldCase(sm) = FoldCase(m) THEN Nil
    ELSE NewValidationError(<<"Unsupported model: ", m>>)

ValidateModelInput(m, supportedModels) ==
    IF IsBlankModel(m) THEN NewValidationError(<<"Model selection cannot be empty">>)
    ELSE IF m \in supportedModels THEN Nil
    ELSE NewValidationError(<<"Unsupported model: ", m>>)

----------------------------------------------------------------------------
(* Config and the registry built by NewTranslatorService *)

DefaultOpenAIEndpoint == "https://api.openai.com/v1"
AlibabaEndpoint == "https://idealab.alibaba-inc.com/api/openai/v1"

HasOpenAIKey(c) == c.OpenAIKey # ""
HasAnthropicKey(c) == c.AnthropicKey # ""
GetOpenAIEndpoint(c) == IF c.OpenAIEndpoint = "" THEN DefaultOpenAIEndpoint ELSE c.OpenAIEndpoint

\* strings.HasPrefix(endpoint, "https://idealab.alibaba-inc.com"), over the endpoints of Configs
HasAlibabaPrefix(endpoint) == endpoint = AlibabaEndpoint

\* a translator instance: its implementation and what tells two instances apart
NewMockTranslator(name) == [kind |-> "mock", name |-> name]
NewOpenAITranslator(key, endpoint) == [kind |-> "openai", name |-> "OpenAI"]
NewAnthropicTranslator(key) == [kind |-> "anthropic", name |-> "Anthropic"]
\* the test double of the service tests, with a translateFunc of the test's choice
MockTranslatorForTesting(name) == [kind |-> "custom", name |-> name]

GptModels == {"gpt-3.5-turbo", "gpt-3.5", "gpt-4", "gpt-4-turbo", "gpt-4o"}
QwenModels == {"Qwen3-Coder-Plus", "qwen-max-latest", "qwen-plus", "qwen2.5-max", "qwen2.5-plus"}
ClaudeModels == {"claude-3-opus", "claude-3-sonnet", "claude-3-haiku", "claude-3-opus-20240229",
                 "claude-3-sonnet-20240229", "claude-3-haiku-20240307", "claude"}

\* the display name each mock translator is constructed with
MockDisplayName(m) ==
    CASE m = "gpt-3.5-turbo" -> "GPT-3.5 Turbo"
      [] m = "gpt-3.5" -> "GPT-3.5"
      [] m = "gpt-4" -> "GPT-4"
      [] m = "gpt-4-turbo" -> "GPT-4 Turbo"
      [] m = "gpt-4o" -> "GPT-4O"
      [] m = "Qwen3-Coder-Plus" -> "Qwen3 Coder Plus"
      [] m = "qwen-max-latest" -> "Qwen Max Latest"
      [] m = "qwen-plus" -> "Qwen Plus"
      [] m = "qwen2.5-max" -> "Qwen 2.5 Max"
      [] m = "qwen2.5-plus" -> "Qwen 2.5 Plus"
      [] m = "claude-3-opus" -> "Claude 3 Opus"
      [] m = "claude-3-sonnet" -> "Claude 3 Sonnet"
      [] m = "claude-3-haiku" -> "Claude 3 Haiku"
      [] m = "claude-3-opus-20240229" -> "Claude 3 Opus (2024-02-29)"
      [] m = "claude-3-sonnet-20240229" -> "Claude 3 Sonnet (2024-02-29)"
      [] m = "claude-3-haiku-20240307" -> "Claude 3 Haiku (2024-03-07)"
      [] m = "claude" -> "Claude"
      [] m = "llama" -> "Llama"
      [] OTHER -> m

registerTranslators(c) ==
    LET openaiTranslator == NewOpenAITranslator(c.OpenAIKey, GetOpenAIEndpoint(c))
        anthropicTranslator == NewAnthropicTranslator(c.AnthropicKey)
        openaiPart ==
            IF HasOpenAIKey(c)
            THEN IF HasAlibabaPrefix(GetOpenAIEndpoint(c))
                 THEN [m \in QwenModels |-> openaiTranslator]
                 ELSE [m \in GptModels |-> openaiTranslator]
            ELSE [m \in GptModels \cup QwenModels |-> NewMockTranslator(MockDisplayName(m))]
        anthropicPart ==
            IF HasAnthropicKey(c)
            THEN [m \in ClaudeModels |-> anthropicTranslator]
            ELSE [m \in ClaudeModels |-> NewMockTranslator(MockDisplayName(m))]
    IN  openaiPart @@ anthropicPart @@ ("llama" :> NewMockTranslator(MockDisplayName("llama")))

\* NewTranslatorService(cfg).translators
NewTranslatorService(c) == registerTranslators(c)

\* a service that advertises every documented model, whatever it registered
GetSupportedModelsDocumented(reg) == GptModels \cup QwenModels \cup ClaudeModels \cup {"llama"}

\* GetSupportedModels(): the keys of the map (as a set: callers only search it)
GetSupportedModels(reg) == DOMAIN reg

IsModelSupported(reg, m) == m \in DOMAIN reg

----------------------------------------------------------------------------
(* SupportsModel of each translator *)

\* a model identifier or a display name as the string of its characters
Spelling(str) ==
    CASE str = "gpt-3.5-turbo" -> <<103, 112, 116, 45, 51, 46, 53, 45, 116, 117, 114, 98, 111>>
      [] str = "gpt-3.5" -> <<103, 112, 116, 45, 51, 46, 53>>
      [] str = "gpt-4" -> <<103, 112, 116, 45, 52>>
      [] str = "gpt-4-turbo" -> <<103, 112, 116, 45, 52, 45, 116, 117, 114, 98, 111>>
      [] str = "gpt-4o" -> <<103, 112, 116, 45, 52, 111>>
      [] str = "Qwen3-Coder-Plus" -> <<81, 119, 101, 110, 51, 45, 67, 111, 100, 101, 114, 45, 80, 108, 117, 115>>
      [] str = "qwen-max-latest" -> <<113, 119, 101, 110, 45, 109, 97, 120, 45, 108, 97, 116, 101, 115, 116>>
      [] str = "qwen-plus" -> <<113, 119, 101, 110, 45, 112, 108, 117, 115>>
      [] str = "qwen2.5-max" -> <<113, 119, 101, 110, 50, 46, 53, 45, 109, 97, 120>>
      [] str = "qwen2.5-plus" -> <<113, 119, 101, 110, 50, 46, 53, 45, 112, 108, 117, 115>>
      [] str = "claude-3-opus" -> <<99, 108, 97, 117, 100, 101, 45, 51, 45, 111, 112, 117, 115>>
      [] str = "claude-3-sonnet" -> <<99, 108, 97, 117, 100, 101, 45, 51, 45, 115, 111, 110, 110, 101, 116>>
      [] str = "claude-3-haiku" -> <<99, 108, 97, 117, 100, 101, 45, 51, 45, 104, 97, 105, 107, 117>>
      [] str = "claude-3-opus-20240229" -> <<99, 108, 97, 117, 100, 101, 45, 51, 45, 111, 112, 117, 115, 45, 50, 48, 50, 52, 48, 50, 50, 57>>
      [] str = "claude-3-sonnet-20240229" -> <<99, 108, 97, 117, 100, 101, 45, 51, 45, 115, 111, 110, 110, 101, 116, 45, 50, 48, 50, 52, 48, 50, 50, 57>>
      [] str = "claude-3-haiku-20240307" -> <<99, 108, 97, 117, 100, 101, 45, 51, 45, 104, 97, 105, 107, 117, 45, 50, 48, 50, 52, 48, 51, 48, 55>>
      [] str = "claude" -> <<99, 108, 97, 117, 100, 101>>
      [] str = "llama" -> <<108, 108, 97, 109, 97>>
      [] str = "GPT-3.5 Turbo" -> <<71, 80, 84, 45, 51, 46, 53, 32, 84, 117, 114, 98, 111>>
      [] str = "GPT-3.5" -> <<71, 80, 84, 45, 51, 46, 53>>
      [] str = "GPT-4" -> <<71, 80, 84, 45, 52>>
      [] str = "GPT-4 Turbo" -> <<71, 80, 84, 45, 52, 32, 84, 117, 114, 98, 111>>
      [] str = "GPT-4O" -> <<71, 80, 84, 45, 52, 79>>
      [] str = "Qwen3 Coder Plus" -> <<81, 119, 101, 110, 51, 32, 67, 111, 100, 101, 114, 32, 80, 108, 117, 115>>
      [] str = "Qwen Max Latest" -> <<81, 119, 101, 110, 32, 77, 97, 120, 32, 76, 97, 116, 101, 115, 116>>
      [] str = "Qwen Plus" -> <<81, 119, 101, 110, 32, 80, 108, 117, 115>>
      [] str = "Qwen 2.5 Max" -> <<81, 119, 101, 110, 32, 50, 46, 53, 32, 77, 97, 120>>
      [] str = "Qwen 2.5 Plus" -> <<81, 119, 101, 110, 32, 50, 46, 53, 32, 80, 108, 117, 115>>
      [] str = "Claude 3 Opus" -> <<67, 108, 97, 117, 100, 101, 32, 51, 32, 79, 112, 117, 115>>
      [] str = "Claude 3 Sonnet" -> <<67, 108, 97, 117, 100, 101, 32, 51, 32, 83, 111, 110, 110, 101, 116>>
      [] str = "Claude 3 Haiku" -> <<67, 108, 97, 117, 100, 101, 32, 51, 32, 72, 97, 105, 107, 117>>
      [] str = "Claude 3 Opus (2024-02-29)" -> <<67, 108, 97, 117, 100, 101, 32, 51, 32, 79, 112, 117, 115, 32, 40, 50, 48, 50, 52, 45, 48, 50, 45, 50, 57, 41>>
      [] str = "Claude 3 Sonnet (2024-02-29)" -> <<67, 108, 97, 117, 100, 101, 32, 51, 32, 83, 111, 110, 110, 101, 116, 32, 40, 50, 48, 50, 52, 45, 48, 50, 45, 50, 57, 41>>
      [] str = "Claude 3 Haiku (2024-03-07)" -> <<67, 108, 97, 117, 100, 101, 32, 51, 32, 72, 97, 105, 107, 117, 32, 40, 50, 48, 50, 52, 45, 48, 51, 45, 48, 55, 41>>
      [] str = "Claude" -> <<67, 108, 97, 117, 100, 101>>
      [] str = "Llama" -> <<76, 108, 97, 109, 97>>
      [] OTHER -> <<>>

\* strings.ToLower, a character at a time (the names are ASCII)
ToLower(chars) == [i \in 1..Len(chars) |-> IF chars[i] >= 65 /\ chars[i] <= 90 THEN chars[i] + 32 ELSE chars[i]]

\* strings.EqualFold
EqualFold(a, b) == ToLower(a) = ToLower(b)

\* strings.Contains
ContainsString(hay, needle) ==
    \E k \in 0..(Len(hay) - Len(needle)) : \A i \in 1..Len(needle) : hay[k + i] = needle[i]

\* MockTranslator.SupportsModel
MockSupportsModel(name, m) ==
    \/ EqualFold(Spelling(name), Spelling(m))
    \/ ContainsString(ToLower(Spelling(name)), ToLower(Spelling(m)))

\* OpenAITranslator.SupportsModel
OpenAISupportsModel(m) == m \in {"gpt-3.5-turbo", "gpt-3.5", "gpt-4", "gpt-4-turbo", "gpt-4o"}

\* AnthropicTranslator.SupportsModel
AnthropicSupportsModel(m) ==
    m \in {"claude-3-opus-20240229", "claude-3-sonnet-20240229", "claude-3-haiku-20240307",
           "claude-3-opus", "claude-3-sonnet", "claude-3-haiku"}

\* translator.SupportsModel(model), by the implementation behind the interface
SupportsModel(p, m) ==
    CASE p.kind = "mock" -> MockSupportsModel(p.name, m)
      [] p.kind = "openai" -> OpenAISupportsModel(m)
      [] p.kind = "anthropic" -> AnthropicSupportsModel(m)
      [] OTHER -> p.name = m

----------------------------------------------------------------------------
(* Translators: the outcomes one Translate call of a translator can have *)

Response(original, translation, m) ==
    <<[original |-> original, translation |-> translation, model |-> m]>>

\* mockTranslate: "[Translated by <name>] <text>"
mockTranslate(name, txt) == [by |-> name, text |-> txt]

\* the simulated latency of the mock translator: time.Sleep(500 * time.Millisecond)
MockLatencyMs == 500

\* the steps in which the model lets the time of that sleep pass
LatencyStepMs == MockLatencyMs \div 2

\* the mock translator is still in its time.Sleep
Sleeping(p, n) == p.kind = "mock" /\ n.slept < MockLatencyMs

\* MockTranslator.Translate: sleeps, then looks at the context once
MockTranslatorTranslate(p, txt, ctxNow) ==
    IF ctxNow # "none"
    THEN [resp |-> Nil, err |-> CtxError(ctxNow)]
    ELSE [resp |-> Response(txt, mockTranslate(p.name, txt), p.name), err |-> Nil]

\* what client.Do can fail with: the transport, or the request's context
TransportErrors(ctxNow) ==
    {PlainErr(<<"connection refused">>)}
    \cup (IF ctxNow # "none" THEN {CtxError(ctxNow)} ELSE {})

\* bodies an upstream sends with a status other than 200
UpstreamBodies == {<<"overloaded">>, <<"validation error:", "text rejected">>}

\* content an upstream returns as the translation
UpstreamContent == [by |-> "upstream", text |-> <<>>]

\* the empty string as the content of a choice or of a content item
NoContent == [by |-> "", text |-> <<>>]

\* the body of a 200 answer as json.Unmarshal reads it: the error object's type and
\* message, and the contents of the choices (OpenAI) or of the content items (Anthropic)
UnparsablePayload == [parses |-> FALSE, errType |-> "", errMessage |-> "", items |-> <<>>]

UpstreamPayloads ==
    {UnparsablePayload}
    \cup [parses : {TRUE},
          errType : {"", "overloaded_error"},
          errMessage : {"", "upstream message"},
          items : {<<>>, <<NoContent>>, <<UpstreamContent>>,
                   <<NoContent, UpstreamContent>>, <<UpstreamContent, NoContent>>}]

\* what the HTTP exchange with the upstream gives: the error of client.Do, the error
\* of io.ReadAll, the status, the body of a status other than 200, the payload
UpstreamReplies(ctxAtStart, ctxNow) ==
    [fault : IF ctxAtStart # "none"
             THEN \* the request is built with the context: a finished context fails the call
                  {CtxError(ctxAtStart)}
             ELSE {Nil} \cup TransportErrors(ctxNow),
     readErr : {Nil, PlainErr(<<"unexpected EOF">>)},
     status : {200, 500},
     body : UpstreamBodies,
     payload : UpstreamPayloads]

\* if len(apiResp.Error.Message) > 0 (OpenAI), if len(apiResp.Error.Type) > 0 (Anthropic)
ReportsError(p, payload) ==
    IF p.kind = "openai" THEN payload.errMessage # "" ELSE payload.errType # ""

\* a translator that returns whatever content the first item has
UpstreamOutcomeNoEmptyCheck(p, txt, m, rep) ==
    IF rep.fault # Nil \/ rep.readErr # Nil \/ rep.status # 200 \/ ~rep.payload.parses
       \/ ReportsError(p, rep.payload) \/ rep.payload.items = <<>>
    THEN [resp |-> Nil, err |-> PlainErr(<<"API call failed">>)]
    ELSE [resp |-> Response(txt, rep.payload.items[1], m), err |-> Nil]

\* OpenAITranslator.Translate and AnthropicTranslator.Translate, from client.Do on
UpstreamOutcome(p, txt, m, rep) ==
    LET fail(e) == [resp |-> Nil, err |-> e]
        payload == rep.payload
    IN  IF rep.fault # Nil THEN fail(Errorf(<<"failed to make API call:">>, rep.fault))
        ELSE IF rep.readErr # Nil THEN fail(Errorf(<<"failed to read response body:">>, rep.readErr))
        ELSE IF rep.status # 200 THEN fail(PlainErr(<<"API returned status 500:">> \o rep.body))
        ELSE IF ~payload.parses
        THEN fail(Errorf(<<"failed to parse API response:">>, PlainErr(<<"invalid character">>)))
        ELSE IF ReportsError(p, payload)
        THEN fail(PlainErr(<<IF p.kind = "openai" THEN "API error:" ELSE "API error (type):",
                             payload.errMessage>>))
        ELSE IF payload.items = <<>>
        THEN fail(PlainErr(<<IF p.kind = "openai" THEN "API returned no translation choices"
                                                   ELSE "API returned no translation content">>))
        ELSE IF payload.items[1] = NoContent THEN fail(PlainErr(<<"API returned empty translation">>))
        ELSE [resp |-> Response(txt, payload.items[1], m), err |-> Nil]

UpstreamTranslate(p, txt, m, ctxAtStart, ctxNow) ==
    {UpstreamOutcome(p, txt, m, rep) : rep \in UpstreamReplies(ctxAtStart, ctxNow)}

\* errors the translateFunc of a test double returns
TestDoubleErrors(ctxNow) ==
    {PlainErr(<<"temporary network error">>),
     PlainErr(<<"API returned status 400:", "validation error:", "text rejected">>),
     NewValidationError(<<"temporary error">>),
     NewValidationError(<<"validation error:", "text rejected">>)}
    \cup (IF ctxNow # "none" THEN {CtxError(ctxNow)} ELSE {})

\* MockTranslatorForTesting.Translate / testutils.MockTranslator.Translate:
\* whatever the test's function returns, the context ignored unless the function reads it
TestDoubleTranslate(p, txt, ctxNow) ==
    {[resp |-> Nil, err |-> e] : e \in TestDoubleErrors(ctxNow)}
    \cup {[resp |-> Response(txt, [by |-> t, text |-> <<>>], p.name), err |-> Nil] :
            t \in {"mock translation", "success after retries"}}
    \cup {[resp |-> Nil, err |-> Nil]}

\* translator.Translate(ctx, req), by the implementation behind the interface
TranslatorTranslate(p, txt, m, ctxAtStart, ctxNow) ==
    CASE p.kind = "mock" -> {MockTranslatorTranslate(p, txt, ctxNow)}
      [] p.kind \in {"openai", "anthropic"} -> UpstreamTranslate(p, txt, m, ctxAtStart, ctxNow)
      [] OTHER -> TestDoubleTranslate(p, txt, ctxNow)

----------------------------------------------------------------------------
(* TranslatorService.Translate: the pieces of its retry loop *)

\* a loop that runs once too often
RetryLimitOffByOne == 3 + 1

\* a loop that gives up one attempt early
RetryLimitTwo == 3 - 1

\* for attempt := 0; attempt < 3; attempt++
RetryLimit == 3

\* 100 * time.Millisecond
BackoffUnitMs == 100

\* the text the loop searches a failure's message for
ValidationMarker == "validation error:"

\* strings.Contains(err.Error(), "validation error:")
IsValidationMessage(e) == Contains(ErrorMsg(e), ValidationMarker)

\* if attempt < 2: no sleep on the last attempt
ShouldSleep(a) == a < 2

\* a delay that does not grow with the attempt
BackoffDelayFixed(a) == BackoffUnitMs

\* time.Duration(attempt+1) * 100 * time.Millisecond
BackoffDelay(a) == (a + 1) * BackoffUnitMs

\* a timer that is ready as soon as it is armed
TimerFiredAtOnce(w) == TRUE

\* <-time.After(d): ready once d has passed since the timer was armed
TimerFired(w) == w.elapsed >= w.delay

\* a backoff wait that only the context can end
SelectCasesCtxOnly == {"ctx"}

\* a backoff wait that only sleeps
SelectCasesTimerOnly == {"timer"}

\* the cases of the select of the backoff wait: <-ctx.Done() and <-time.After(...)
SelectCases == {"ctx", "timer"}

\* return response, nil
SuccessResult(resp) == [resp |-> resp, err |-> Nil]

\* case <-ctx.Done(): return nil, ctx.Err()
BackoffCancelled(c) == [resp |-> Nil, err |-> CtxError(c)]

\* the last error formatted into the message (%v) instead of wrapped
ExhaustedErrorNoWrap(m, e) == PlainErr(<<"failed to translate with", m, "after retries:">> \o ErrorMsg(e))

\* fmt.Errorf("failed to translate with %s after retries: %w", req.Model, err)
ExhaustedError(m, e) == Errorf(<<"failed to translate with", m, "after retries:">>, e)

\* fmt.Errorf("validation error: %w", err)
ValidationFailure(e) == Errorf(<<ValidationMarker>>, e)

\* fmt.Errorf("unsupported model: %s", req.Model)
UnsupportedModel(m) == PlainErr(<<"unsupported model:", m>>)

\* a lookup that builds a translator for the model each time it is asked
LookupFresh(reg, m) == <<NewMockTranslator(m)>>

\* translator, exists := ts.translators[req.Model]: the translator, nil when there is none
Lookup(reg, m) == IF m \in DOMAIN reg THEN <<reg[m]>> ELSE Nil

\* a service that validates the model before the text
PreLoopModelFirst(txt, m, reg) ==
    LET textErr == ValidateTextInput(txt)
        modelErr == ValidateModelInput(m, GetSupportedModels(reg))
    IN  IF modelErr # Nil THEN [err |-> ValidationFailure(modelErr), exit |-> "validation"]
        ELSE IF textErr # Nil THEN [err |-> ValidationFailure(textErr), exit |-> "validation"]
        ELSE IF m \notin DOMAIN reg THEN [err |-> UnsupportedModel(m), exit |-> "unsupported"]
        ELSE [err |-> Nil, exit |-> "none"]

\* a service that validates the text only and never looks the model up
PreLoopTextOnly(txt, m, reg) ==
    LET textErr == ValidateTextInput(txt)
    IN  IF textErr # Nil THEN [err |-> ValidationFailure(textErr), exit |-> "validation"]
        ELSE [err |-> Nil, exit |-> "none"]

\* Translate before its loop: ValidateTextInput, ValidateModelInput against
\* GetSupportedModels(), then the lookup in ts.translators
PreLoop(txt, m, reg) ==
    LET textErr == ValidateTextInput(txt)
        modelErr == ValidateModelInput(m, GetSupportedModels(reg))
    IN  IF textErr # Nil THEN [err |-> ValidationFailure(textErr), exit |-> "validation"]
        ELSE IF modelErr # Nil THEN [err |-> ValidationFailure(modelErr), exit |-> "validation"]
        ELSE IF m \notin DOMAIN reg THEN [err |-> UnsupportedModel(m), exit |-> "unsupported"]
        ELSE [err |-> Nil, exit |-> "none"]

----------------------------------------------------------------------------
(* State *)

VARIABLES
    cfg,          \* the Config the service was built from
    translators,  \* ts.translators: model identifier -> translator
    reqs,         \* the Translate calls of this run
    text,         \* req.Text of each call
    model,        \* req.Model of each call
    ctx,          \* ctx.Err() of each call's context: "none", "canceled" or "deadline"
    pc,           \* where each call is
    attempt,      \* the loop variable
    response,     \* the local response
    err,          \* the local err
    sel,          \* the case the select of the backoff wait chose
    waits,        \* the backoff timers armed so far: delay and time elapsed, in ms
    result,       \* what the call returned
    exit,         \* the statement the call left its body by
    logs,         \* the log lines the call wrote
    invoked,      \* per translator invocation: ctx.Err() when it began
    trace,        \* per translator return: what kind of outcome it was
    last,         \* the latest outcome a translator returned
    translator,   \* the local translator: what the lookup in ts.translators gave
    nap,          \* the sleep of the mock translator in the current attempt: ms slept, and
                  \* how many of them with the context done
    answer,       \* what the latest GetSupportedModels / IsModelSupported call returned
    probe,        \* a direct call of the ValidationService or of a translator: input and result
    http,         \* the HTTP request a handler serves and the response it writes
    boot          \* a Config being loaded and validated

vars == <<cfg, translators, reqs, text, model, http, boot, ctx, pc, attempt, response, err, sel,
          waits, result, exit, logs, invoked, trace, last, translator, nap, answer, probe>>

\* the variables of the Translate calls
callVars == <<translator, nap, ctx, pc, attempt, response, err, sel, waits, result, exit, logs,
              invoked, trace, last>>

\* what no step of a Translate call writes: the variables only construction sets,
\* and those of the other operations
frame == <<cfg, translators, reqs, text, model, http, boot, answer, probe>>

NoResult == [resp |-> Nil, err |-> Nil]

\* no time slept in a mock translator, none of it with the context done
NoNap == [slept |-> 0, late |-> 0]

----------------------------------------------------------------------------
(* Inputs *)

Configs ==
    [OpenAIKey : {"", "sk-test"},
     OpenAIEndpoint : {"", AlibabaEndpoint},
     AnthropicKey : {"", "ak-test"}]

\* "", " ", "Hi", "你好", "H" followed by the control character 0x01
Texts == {<<>>, <<32>>, <<72, 105>>, <<20320, 22909>>, <<72, 1>>}

Models == {"gpt-4", "claude", "llama", "qwen-plus", "test-model", "GPT-4", ""}

CtxStates == {"none", "canceled", "deadline"}

\* the registry of a run: as constructed, or with the test double the service tests add
Registries(c) ==
    {NewTranslatorService(c),
     NewTranslatorService(c) @@ ("test-model" :> MockTranslatorForTesting("test-model"))}

InitCalls(R) ==
    /\ reqs = R
    /\ text \in [R -> Texts]
    /\ model \in [R -> Models]
    /\ ctx \in [R -> CtxStates]
    /\ pc = [r \in R |-> "start"]
    /\ attempt = [r \in R |-> 0]
    /\ response = [r \in R |-> Nil]
    /\ err = [r \in R |-> Nil]
    /\ sel = [r \in R |-> "none"]
    /\ waits = [r \in R |-> <<>>]
    /\ result = [r \in R |-> NoResult]
    /\ exit = [r \in R |-> "none"]
    /\ logs = [r \in R |-> <<>>]
    /\ invoked = [r \in R |-> <<>>]
    /\ trace = [r \in R |-> <<>>]
    /\ last = [r \in R |-> NoResult]
    /\ translator = [r \in R |-> Nil]
    /\ nap = [r \in R |-> NoNap]

\* no registry query made yet, no direct call of the ValidationService
NoAnswer == [op |-> "none"]
NoProbe == [op |-> "none"]

\* no HTTP request served, no Config being loaded
NoHttp == [state |-> "none"]
NoBoot == [op |-> "none"]

Init ==
    /\ cfg \in Configs
    /\ translators \in Registries(cfg)
    /\ InitCalls({1})
    /\ answer = NoAnswer
    /\ probe = NoProbe
    /\ http = NoHttp
    /\ boot = NoBoot

----------------------------------------------------------------------------
(* Steps of one Translate call *)

Return(r, res, how) ==
    /\ result' = [result EXCEPT ![r] = res]
    /\ exit' = [exit EXCEPT ![r] = how]
    /\ pc' = [pc EXCEPT ![r] = "done"]

\* a loop counter kept on the service, shared by all calls
LoopNextShared(r) ==
    /\ attempt' = [q \in reqs |-> attempt[q] + 1]
    /\ IF attempt[r] + 1 < RetryLimit
       THEN pc' = [pc EXCEPT ![r] = "call"] /\ UNCHANGED exit
       ELSE pc' = [pc EXCEPT ![r] = "afterloop"] /\ exit' = [exit EXCEPT ![r] = "exhausted"]

\* attempt++, then the loop condition
LoopNext(r) ==
    /\ attempt' = [attempt EXCEPT ![r] = attempt[r] + 1]
    /\ IF attempt[r] + 1 < RetryLimit
       THEN pc' = [pc EXCEPT ![r] = "call"] /\ UNCHANGED exit
       ELSE pc' = [pc EXCEPT ![r] = "afterloop"] /\ exit' = [exit EXCEPT ![r] = "exhausted"]

\* time left on the timer of the current backoff wait
Remaining(r) == waits[r][Len(waits[r])].delay - waits[r][Len(waits[r])].elapsed

\* a service that registers a translator for the requested model on first use
ValidateRegistering(r) ==
    /\ pc[r] = "start"
    /\ translators' = translators @@ (model[r] :> NewMockTranslator(model[r]))
    /\ Return(r, [resp |-> Nil, err |-> UnsupportedModel(model[r])], "unsupported")
    /\ UNCHANGED <<cfg, reqs, text, model, http, boot, answer, probe, translator, nap, ctx, attempt, response,
                   err, sel, waits, logs, invoked, trace, last>>

\* the two validations and the lookup, before the loop
Validate(r) ==
    /\ pc[r] = "start"
    /\ LET p == PreLoop(text[r], model[r], translators)
       IN  IF p.err # Nil
           THEN Return(r, [resp |-> Nil, err |-> p.err], p.exit) /\ UNCHANGED translator
           ELSE /\ translator' = [translator EXCEPT ![r] = Lookup(translators, model[r])]
                /\ pc' = [pc EXCEPT ![r] = "call"]
                /\ UNCHANGED <<result, exit>>
    /\ UNCHANGED <<frame, nap, ctx, attempt, response, err, sel, waits, logs, invoked, trace, last>>

\* translator.Translate(ctx, req) is entered
Invoke(r) ==
    /\ pc[r] = "call"
    /\ invoked' = [invoked EXCEPT ![r] = Append(@, ctx[r])]
    /\ nap' = [nap EXCEPT ![r] = NoNap]
    /\ pc' = [pc EXCEPT ![r] = "inflight"]
    /\ UNCHANGED <<frame, translator, ctx, attempt, response, err, sel, waits, result, exit, logs, trace, last>>

\* what the test of the loop sees of an outcome
Summary(o) ==
    [ok |-> o.err = Nil,
     validation |-> IsValidationError(o.err),
     marker |-> Contains(ErrorMsg(o.err), "validation error:")]

\* time.Sleep(500 * time.Millisecond) of the mock translator: time passes, whatever
\* the context says
Sleep(r) ==
    /\ pc[r] = "inflight"
    /\ Sleeping(translator[r][1], nap[r])
    /\ nap' = [nap EXCEPT ![r] = [slept |-> @.slept + LatencyStepMs,
                                  late |-> @.late + (IF ctx[r] # "none" THEN LatencyStepMs ELSE 0)]]
    /\ UNCHANGED <<frame, translator, ctx, pc, attempt, response, err, sel, waits, result, exit, logs,
                   invoked, trace, last>>

\* translator.Translate returns; on success Translate returns at once
ProviderReturn(r) ==
    /\ pc[r] = "inflight"
    /\ ~Sleeping(translator[r][1], nap[r])
    /\ \E o \in TranslatorTranslate(translator[r][1], text[r], model[r],
                                    invoked[r][Len(invoked[r])], ctx[r]) :
        /\ response' = [response EXCEPT ![r] = o.resp]
        /\ err' = [err EXCEPT ![r] = o.err]
        /\ last' = [last EXCEPT ![r] = o]
        /\ trace' = [trace EXCEPT ![r] = Append(@, Summary(o))]
        /\ IF o.err = Nil
           THEN Return(r, SuccessResult(o.resp), "success") /\ UNCHANGED logs
           ELSE /\ logs' = [logs EXCEPT ![r] = Append(@, "attempt failed")]
                /\ pc' = [pc EXCEPT ![r] = "failed"]
                /\ UNCHANGED <<result, exit>>
    /\ UNCHANGED <<frame, translator, nap, ctx, attempt, sel, waits, invoked>>

\* after a failure: the context check, the message check, then the backoff or the next turn
Classify(r) ==
    /\ pc[r] = "failed"
    /\ IF ctx[r] # "none"
       THEN /\ pc' = [pc EXCEPT ![r] = "afterloop"]
            /\ exit' = [exit EXCEPT ![r] = "ctxbreak"]
            /\ UNCHANGED <<attempt, waits>>
       ELSE IF IsValidationMessage(err[r])
       THEN /\ pc' = [pc EXCEPT ![r] = "afterloop"]
            /\ exit' = [exit EXCEPT ![r] = "valbreak"]
            /\ UNCHANGED <<attempt, waits>>
       ELSE IF ShouldSleep(attempt[r])
       THEN /\ waits' = [waits EXCEPT ![r] = Append(@, [delay |-> BackoffDelay(attempt[r]), elapsed |-> 0])]
            /\ pc' = [pc EXCEPT ![r] = "select"]
            /\ UNCHANGED <<attempt, exit>>
       ELSE LoopNext(r) /\ UNCHANGED waits
    /\ UNCHANGED <<frame, translator, nap, ctx, response, err, sel, result, logs, invoked, trace, last>>

\* the select looks at its two channels: a ready one is taken (any, when both are),
\* otherwise the call blocks on both
Poll(r) ==
    /\ pc[r] = "select"
    /\ LET ready == {c \in SelectCases : \/ (c = "ctx" /\ ctx[r] # "none")
                                           \/ (c = "timer" /\ TimerFired(waits[r][Len(waits[r])]))}
       IN  IF ready = {}
           THEN pc' = [pc EXCEPT ![r] = "parked"] /\ UNCHANGED sel
           ELSE /\ \E c \in ready : sel' = [sel EXCEPT ![r] = c]
                /\ pc' = [pc EXCEPT ![r] = "selected"]
    /\ UNCHANGED <<frame, translator, nap, ctx, attempt, response, err, waits, result, exit, logs, invoked, trace, last>>

\* time passes during a backoff wait; the timer firing wakes a blocked call
Tick(r) ==
    /\ pc[r] \in {"select", "parked"}
    /\ Remaining(r) > 0
    /\ waits' = [waits EXCEPT ![r][Len(waits[r])].elapsed = @ + BackoffUnitMs]
    /\ IF pc[r] = "parked" /\ Remaining(r) <= BackoffUnitMs /\ "timer" \in SelectCases
       THEN pc' = [pc EXCEPT ![r] = "selected"] /\ sel' = [sel EXCEPT ![r] = "timer"]
       ELSE UNCHANGED <<pc, sel>>
    /\ UNCHANGED <<frame, translator, nap, ctx, attempt, response, err, result, exit, logs, invoked, trace, last>>

\* the caller cancels the context, or its deadline passes; this wakes a blocked call
Cancel(r) ==
    /\ pc[r] # "done"
    /\ ctx[r] = "none"
    /\ \E c \in {"canceled", "deadline"} : ctx' = [ctx EXCEPT ![r] = c]
    /\ IF pc[r] = "parked" /\ "ctx" \in SelectCases
       THEN pc' = [pc EXCEPT ![r] = "selected"] /\ sel' = [sel EXCEPT ![r] = "ctx"]
       ELSE UNCHANGED <<pc, sel>>
    /\ UNCHANGED <<frame, translator, nap, attempt, response, err, waits, result, exit, logs, invoked, trace, last>>

\* the chosen case of the select runs
Resume(r) ==
    /\ pc[r] = "selected"
    /\ sel' = [sel EXCEPT ![r] = "none"]
    /\ IF sel[r] = "ctx"
       THEN Return(r, BackoffCancelled(ctx[r]), "waitcancel") /\ UNCHANGED attempt
       ELSE LoopNext(r) /\ UNCHANGED result
    /\ UNCHANGED <<frame, translator, nap, ctx, response, err, waits, logs, invoked, trace, last>>

\* after the loop
Finish(r) ==
    /\ pc[r] = "afterloop"
    /\ IF err[r] # Nil
       THEN /\ logs' = [logs EXCEPT ![r] = Append(@, "failed after retries")]
            /\ result' = [result EXCEPT ![r] = [resp |-> Nil, err |-> ExhaustedError(model[r], err[r])]]
       ELSE /\ result' = [result EXCEPT ![r] = [resp |-> response[r], err |-> Nil]]
            /\ UNCHANGED logs
    /\ pc' = [pc EXCEPT ![r] = "done"]
    /\ UNCHANGED <<frame, translator, nap, ctx, attempt, response, err, sel, waits, exit, invoked, trace, last>>

Next ==
    \/ \E r \in reqs : Validate(r)
    \/ \E r \in reqs : Invoke(r)
    \/ \E r \in reqs : Sleep(r)
    \/ \E r \in reqs : ProviderReturn(r)
    \/ \E r \in reqs : Classify(r)
    \/ \E r \in reqs : Poll(r)
    \/ \E r \in reqs : Tick(r)
    \/ \E r \in reqs : Cancel(r)
    \/ \E r \in reqs : Resume(r)
    \/ \E r \in reqs : Finish(r)

Spec == Init /\ [][Next]_vars

\* Every step of a Translate call is taken once it can be: the scheduler runs the
\* goroutine, a translator's call returns, the time of a sleep and of a timer passes.
\* Nothing obliges the caller to cancel.
Progress(r) ==
    /\ WF_vars(Validate(r))
    /\ WF_vars(Invoke(r))
    /\ WF_vars(Sleep(r))
    /\ WF_vars(ProviderReturn(r))
    /\ WF_vars(Classify(r))
    /\ WF_vars(Poll(r))
    /\ WF_vars(Tick(r))
    /\ WF_vars(Resume(r))
    /\ WF_vars(Finish(r))

SpecLive == Init /\ [][Next]_vars /\ \A r \in {1} : Progress(r)

----------------------------------------------------------------------------
(* Two concurrent Translate calls, and concurrent readers of the registry *)

\* ts.GetSupportedModels() called by another goroutine
SupportedModelsCall ==
    /\ answer' = [op |-> "GetSupportedModels", models |-> GetSupportedModels(translators)]
    /\ UNCHANGED <<cfg, translators, reqs, text, model, http, boot, probe, translator, nap, ctx, pc, attempt,
                   response, err, sel, waits, result, exit, logs, invoked, trace, last>>

\* ts.IsModelSupported(m) called by another goroutine
IsModelSupportedCall(m) ==
    /\ answer' = [op |-> "IsModelSupported", model |-> m, supported |-> IsModelSupported(translators, m)]
    /\ UNCHANGED <<cfg, translators, reqs, text, model, http, boot, probe, translator, nap, ctx, pc, attempt,
                   response, err, sel, waits, result, exit, logs, invoked, trace, last>>

\* no key at all, or an OpenAI key with the default endpoint
ConcConfigs == {c \in Configs : c.OpenAIEndpoint = "" /\ c.AnthropicKey = ""}

\* "Hi" and ""
ConcTexts == {<<72, 105>>, <<>>}

\* the first call may reach an upstream, the second one only a mock translator
ConcModels(r) == IF r = 1 THEN {"gpt-4", "llama"} ELSE {"llama", "GPT-4"}

\* the models the readers ask about
QueryModels == {"gpt-4", "GPT-4"}

InitConc ==
    /\ cfg \in ConcConfigs
    /\ translators = NewTranslatorService(cfg)
    /\ InitCalls({1, 2})
    /\ \A r \in reqs : text[r] \in ConcTexts /\ model[r] \in ConcModels(r) /\ ctx[r] = "none"
    /\ answer = NoAnswer
    /\ probe = NoProbe
    /\ http = NoHttp
    /\ boot = NoBoot

NextConc ==
    \/ \E r \in reqs : Validate(r)
    \/ \E r \in reqs : Invoke(r)
    \/ \E r \in reqs : Sleep(r)
    \/ \E r \in reqs : ProviderReturn(r)
    \/ \E r \in reqs : Classify(r)
    \/ \E r \in reqs : Poll(r)
    \/ \E r \in reqs : Tick(r)
    \/ \E r \in reqs : Cancel(r)
    \/ \E r \in reqs : Resume(r)
    \/ \E r \in reqs : Finish(r)
    \/ SupportedModelsCall
    \/ \E m \in QueryModels : IsModelSupportedCall(m)

SpecConc == InitConc /\ [][NextConc]_vars

----------------------------------------------------------------------------
(* The ValidationService called directly *)

\* space, tab, carriage return, no-break space, "H", a CJK ideograph, and the
\* control characters 0x01, DEL and 0x9F
ProbeAlphabet == {32, 9, 13, 160, 72, 20320, 1, 127, 159}

MaxShortLen == 3

ShortTexts == UNION {[1..n -> ProbeAlphabet] : n \in 0..MaxShortLen}

\* strings.Repeat(string(cp), n)
Repeat(n, cp) == [i \in 1..n |-> cp]

\* texts around the length limit: "a", "\u00e9" (2 bytes) and spaces repeated
LongTexts ==
    {Repeat(n, 97) : n \in {MaxTextBytes - 1, MaxTextBytes, MaxTextBytes + 1}}
    \cup {Repeat(n, 233) : n \in {MaxTextBytes \div 2, MaxTextBytes \div 2 + 1}}
    \cup {Repeat(n, 233) \o <<97>> : n \in {MaxTextBytes \div 2 - 1, MaxTextBytes - 1, MaxTextBytes}}
    \cup {Repeat(MaxTextBytes + 1, 32)}

\* digits, then spaces, then ideographs: texts without a letter, on both sides of
\* the 0.8 ratio
GateTexts ==
    {Repeat(d, 49) \o Repeat(sp, 32) \o Repeat(n, 20320) : d \in 0..9, sp \in {0, 1, 4}, n \in 0..2}

\* "Hello 你好 world", "你好世界", "Hello\x01World"
ExampleTexts ==
    {<<72, 101, 108, 108, 111, 32, 20320, 22909, 32, 119, 111, 114, 108, 100>>,
     <<20320, 22909, 19990, 30028>>,
     <<72, 101, 108, 108, 111, 1, 87, 111, 114, 108, 100>>}

ProbeTexts == ShortTexts \cup LongTexts \cup GateTexts \cup ExampleTexts

\* the model names and the supported-model lists of the direct calls
ProbeModels == {"", " ", "gpt-3.5", "GPT-3.5", "gpt-4", "llama"}
ProbeSupported == SUBSET {"gpt-3.5", "gpt-4", " "}

InitValidation ==
    /\ cfg \in ConcConfigs
    /\ translators = NewTranslatorService(cfg)
    /\ InitCalls({})
    /\ answer = NoAnswer
    /\ http = NoHttp
    /\ boot = NoBoot
    /\ \/ \E t \in ProbeTexts :
              probe = [op |-> "ValidateTextInput", text |-> t, done |-> FALSE, err |-> Nil]
       \/ \E m \in ProbeModels : \E sup \in ProbeSupported :
              probe = [op |-> "ValidateModelInput", model |-> m, supported |-> sup,
                       done |-> FALSE, err |-> Nil]

\* vs.ValidateTextInput(text)
ValidateTextCall ==
    /\ probe.op = "ValidateTextInput"
    /\ ~probe.done
    /\ probe' = [probe EXCEPT !.done = TRUE, !.err = ValidateTextInput(probe.text)]
    /\ UNCHANGED <<cfg, translators, reqs, text, model, http, boot, answer, translator, nap, ctx, pc, attempt,
                   response, err, sel, waits, result, exit, logs, invoked, trace, last>>

\* vs.ValidateModelInput(model, supportedModels)
ValidateModelCall ==
    /\ probe.op = "ValidateModelInput"
    /\ ~probe.done
    /\ probe' = [probe EXCEPT !.done = TRUE, !.err = ValidateModelInput(probe.model, probe.supported)]
    /\ UNCHANGED <<cfg, translators, reqs, text, model, http, boot, answer, translator, nap, ctx, pc, attempt,
                   response, err, sel, waits, result, exit, logs, invoked, trace, last>>

NextValidation ==
    \/ ValidateTextCall
    \/ ValidateModelCall

SpecValidation == InitValidation /\ [][NextValidation]_vars

----------------------------------------------------------------------------
(* The HTTP handlers: TranslateHandler (the web form) and APIHandler *)

\* strings.TrimSpace on a text
TrimSpace(t) ==
    LET keep == {i \in 1..Len(t) : ~IsSpace(t[i])}
    IN  IF keep = {} THEN <<>>
        ELSE SubSeq(t, CHOOSE i \in keep : \A j \in keep : i <= j,
                       CHOOSE i \in keep : \A j \in keep : i >= j)

\* strings.TrimSpace on the model names of RawModels
TrimModel(m) == IF m = " " THEN "" ELSE IF m = " gpt-4 " THEN "gpt-4" ELSE m

\* the fragments of the messages here that have the searched text inside them
FragmentsWith(needle) ==
    CASE needle = "validation error" -> {"validation error:"}
      [] needle = "unsupported model" -> {"unsupported model:"}
      [] OTHER -> {needle}

\* strings.Contains(err.Error(), needle)
Mentions(e, needle) == \E i \in 1..Len(ErrorMsg(e)) : ErrorMsg(e)[i] \in FragmentsWith(needle)

\* http.Error(w, text, code): a text/plain body
PlainReply(code, txt) == [status |-> code, body |-> [type |-> "text/plain", text |-> txt]]

\* APIHandler.getErrorCode, and the same chain in TranslateHandler.ServeHTTP
getErrorCode(e) ==
    IF Mentions(e, "validation error") THEN 400
    ELSE IF Mentions(e, "unsupported model") THEN 400
    ELSE IF Mentions(e, "context deadline exceeded") THEN 408
    ELSE IF Mentions(e, "context canceled") THEN 400
    ELSE 503

\* strings.TrimPrefix(err.Error(), "validation error: ")
TrimValidationPrefix(msg) == IF msg # <<>> /\ Head(msg) = "validation error:" THEN Tail(msg) ELSE msg

\* APIHandler.getErrorMessage
getErrorMessage(e) ==
    IF Mentions(e, "validation error") THEN <<"Invalid input:">> \o TrimValidationPrefix(ErrorMsg(e))
    ELSE IF Mentions(e, "unsupported model") THEN <<"Selected translation model is not supported">>
    ELSE IF Mentions(e, "context deadline exceeded") THEN <<"Translation request timed out">>
    ELSE IF Mentions(e, "context canceled") THEN <<"Translation request was canceled">>
    ELSE <<"Translation service temporarily unavailable">>

\* the request goes on to Translate
NoReject == [status |-> 0]

\* a handler that checks the method only
RejectMethodOnly(h, method, decoded, txt, m) ==
    IF method # "POST" THEN PlainReply(405, <<"Method not allowed">>) ELSE NoReject

\* ServeHTTP before the call of Translate: the method, the JSON body (APIHandler),
\* the trimmed text and the trimmed model
Reject(h, method, decoded, txt, m) ==
    IF method # "POST" THEN PlainReply(405, <<"Method not allowed">>)
    ELSE IF h = "api" /\ ~decoded THEN PlainReply(400, <<"Invalid JSON request">>)
    ELSE IF TrimSpace(txt) = <<>>
         THEN PlainReply(400, IF h = "api" THEN <<"Text field is required">>
                                           ELSE <<"Please enter text to translate">>)
    ELSE IF TrimModel(m) = ""
         THEN PlainReply(400, IF h = "api" THEN <<"Model field is required">>
                                           ELSE <<"Please select a translation model">>)
    ELSE NoReject

\* what a handler writes for an error of Translate
ErrorReply(h, e) ==
    IF h = "api"
    THEN [status |-> getErrorCode(e),
          body |-> [type |-> "application/json", error |-> TRUE,
                    message |-> getErrorMessage(e), details |-> ErrorMsg(e)]]
    ELSE PlainReply(getErrorCode(e), getErrorMessage(e))

\* what a handler writes for a response of Translate
SuccessReply(h, resp) == [status |-> 200, body |-> [type |-> "application/json", response |-> resp]]

\* "", " ", "Hi", " Hi ", "你好"
RawTexts == {<<>>, <<32>>, <<72, 105>>, <<32, 72, 105, 32>>, <<20320, 22909>>}

RawModels == {"", " ", "gpt-4", " gpt-4 ", "GPT-4", "test-model"}

Requests ==
    {q \in [handler : {"form", "api"}, method : {"GET", "POST"}, decoded : BOOLEAN,
            text : RawTexts, model : RawModels] : q.handler = "form" => q.decoded}

InitHTTP ==
    /\ cfg \in ConcConfigs
    /\ translators \in Registries(cfg)
    /\ InitCalls({1})
    /\ text = [r \in reqs |-> <<>>]
    /\ model = [r \in reqs |-> ""]
    /\ ctx = [r \in reqs |-> "none"]
    /\ answer = NoAnswer
    /\ probe = NoProbe
    /\ boot = NoBoot
    /\ \E q \in Requests :
          http = [state |-> "received", request |-> q, status |-> 0, body |-> [type |-> "none"]]

\* ServeHTTP up to the call of Translate: reject the request, or build the
\* TranslationRequest from the trimmed values and call Translate
Serve(r) ==
    /\ http.state = "received"
    /\ pc[r] = "start"
    /\ LET q == http.request
           rej == Reject(q.handler, q.method, q.decoded, q.text, q.model)
       IN  IF rej # NoReject
           THEN /\ http' = [http EXCEPT !.state = "responded", !.status = rej.status, !.body = rej.body]
                /\ UNCHANGED <<text, model>>
           ELSE /\ http' = [http EXCEPT !.state = "translating"]
                /\ text' = [text EXCEPT ![r] = TrimSpace(q.text)]
                /\ model' = [model EXCEPT ![r] = TrimModel(q.model)]
    /\ UNCHANGED <<cfg, translators, reqs, answer, probe, boot, callVars>>

\* ServeHTTP after Translate has returned
Respond(r) ==
    /\ http.state = "translating"
    /\ pc[r] = "done"
    /\ LET reply == IF result[r].err # Nil
                    THEN ErrorReply(http.request.handler, result[r].err)
                    ELSE SuccessReply(http.request.handler, result[r].resp)
       IN  http' = [http EXCEPT !.state = "responded", !.status = reply.status, !.body = reply.body]
    /\ UNCHANGED <<cfg, translators, reqs, text, model, answer, probe, boot, callVars>>

\* a step of the Translate call the handler made
Translating(r) == http.state = "translating"

NextHTTP ==
    \/ \E r \in reqs : Serve(r)
    \/ \E r \in reqs : Respond(r)
    \/ \E r \in reqs : Translating(r) /\ Validate(r)
    \/ \E r \in reqs : Translating(r) /\ Invoke(r)
    \/ \E r \in reqs : Translating(r) /\ Sleep(r)
    \/ \E r \in reqs : Translating(r) /\ ProviderReturn(r)
    \/ \E r \in reqs : Translating(r) /\ Classify(r)
    \/ \E r \in reqs : Translating(r) /\ Poll(r)
    \/ \E r \in reqs : Translating(r) /\ Tick(r)
    \/ \E r \in reqs : Translating(r) /\ Cancel(r)
    \/ \E r \in reqs : Translating(r) /\ Resume(r)
    \/ \E r \in reqs : Translating(r) /\ Finish(r)

SpecHTTP == InitHTTP /\ [][NextHTTP]_vars

----------------------------------------------------------------------------
(* Config: NewConfig, loadFromFile, loadFromEnv, validate *)

DefaultAnthropicEndpoint == "https://api.anthropic.com/v1"

\* strconv.Atoi over the strings used here: <<n>>, or <<>> for a syntax error
Atoi(str) ==
    CASE str = "8080" -> <<8080>>
      [] str = "9000" -> <<9000>>
      [] str = "7000" -> <<7000>>
      [] str = "-1" -> <<-1>>
      [] str = "60" -> <<60>>
      [] str = "301" -> <<301>>
      [] OTHER -> <<>>

\* strconv.ParseBool over the strings used here
ParseBool(str) ==
    CASE str \in {"1", "true"} -> <<TRUE>>
      [] str \in {"0", "false"} -> <<FALSE>>
      [] OTHER -> <<>>

\* strings.HasPrefix(endpoint, "http") over the endpoints used here
HasHttpPrefix(endpoint) ==
    endpoint \in {DefaultOpenAIEndpoint, AlibabaEndpoint, DefaultAnthropicEndpoint, "http://localhost:9999"}

\* the default config of NewConfig
DefaultConfig ==
    [ServerPort |-> "8080", OpenAIEndpoint |-> DefaultOpenAIEndpoint, OpenAIKey |-> "",
     AnthropicEndpoint |-> DefaultAnthropicEndpoint, AnthropicKey |-> "",
     Debug |-> FALSE, Timeout |-> 30]

\* Config.loadFromFile, the file read and parsed
loadFromFile(c, f) ==
    [ServerPort |-> IF f.Port # "" THEN f.Port ELSE c.ServerPort,
     OpenAIEndpoint |-> IF f.OpenAIEndpoint # "" THEN f.OpenAIEndpoint ELSE c.OpenAIEndpoint,
     OpenAIKey |-> IF f.OpenAIKey # "" THEN f.OpenAIKey ELSE c.OpenAIKey,
     AnthropicEndpoint |-> IF f.AnthropicEndpoint # "" THEN f.AnthropicEndpoint ELSE c.AnthropicEndpoint,
     AnthropicKey |-> IF f.AnthropicKey # "" THEN f.AnthropicKey ELSE c.AnthropicKey,
     Debug |-> f.Debug,
     Timeout |-> IF f.Timeout > 0 THEN f.Timeout ELSE c.Timeout]

\* a loader that takes an unparseable TIMEOUT or DEBUG for the zero value
loadFromEnvZeroOnError(c, env) ==
    [ServerPort |-> IF env.PORT # "" THEN env.PORT ELSE c.ServerPort,
     OpenAIEndpoint |-> IF env.OPENAI_ENDPOINT # "" THEN env.OPENAI_ENDPOINT ELSE c.OpenAIEndpoint,
     OpenAIKey |-> IF env.OPENAI_API_KEY # "" THEN env.OPENAI_API_KEY ELSE c.OpenAIKey,
     AnthropicEndpoint |-> IF env.ANTHROPIC_ENDPOINT # "" THEN env.ANTHROPIC_ENDPOINT ELSE c.AnthropicEndpoint,
     AnthropicKey |-> IF env.ANTHROPIC_API_KEY # "" THEN env.ANTHROPIC_API_KEY ELSE c.AnthropicKey,
     Debug |-> IF env.DEBUG = "" THEN c.Debug
               ELSE IF ParseBool(env.DEBUG) # <<>> THEN ParseBool(env.DEBUG)[1] ELSE FALSE,
     Timeout |-> IF env.TIMEOUT = "" THEN c.Timeout
                 ELSE IF Atoi(env.TIMEOUT) # <<>> THEN Atoi(env.TIMEOUT)[1] ELSE 0]

\* Config.loadFromEnv
loadFromEnv(c, env) ==
    [ServerPort |-> IF env.PORT # "" THEN env.PORT ELSE c.ServerPort,
     OpenAIEndpoint |-> IF env.OPENAI_ENDPOINT # "" THEN env.OPENAI_ENDPOINT ELSE c.OpenAIEndpoint,
     OpenAIKey |-> IF env.OPENAI_API_KEY # "" THEN env.OPENAI_API_KEY ELSE c.OpenAIKey,
     AnthropicEndpoint |-> IF env.ANTHROPIC_ENDPOINT # "" THEN env.ANTHROPIC_ENDPOINT ELSE c.AnthropicEndpoint,
     AnthropicKey |-> IF env.ANTHROPIC_API_KEY # "" THEN env.ANTHROPIC_API_KEY ELSE c.AnthropicKey,
     Debug |-> IF env.DEBUG # "" /\ ParseBool(env.DEBUG) # <<>> THEN ParseBool(env.DEBUG)[1] ELSE c.Debug,
     Timeout |-> IF env.TIMEOUT # "" /\ Atoi(env.TIMEOUT) # <<>> THEN Atoi(env.TIMEOUT)[1] ELSE c.Timeout]

\* a validation without the upper limit of the timeout and without the key checks
validateLax(c) ==
    IF c.ServerPort = "" THEN PlainErr(<<"server port cannot be empty">>)
    ELSE IF Atoi(c.ServerPort) = <<>>
         THEN Errorf(<<"server port must be a valid number:">>, PlainErr(<<"strconv.Atoi: invalid syntax">>))
    ELSE IF c.Timeout <= 0 THEN PlainErr(<<"timeout must be positive">>)
    ELSE IF c.OpenAIEndpoint # "" /\ ~HasHttpPrefix(c.OpenAIEndpoint)
         THEN PlainErr(<<"openai_endpoint must be a valid URL">>)
    ELSE IF c.AnthropicEndpoint # "" /\ ~HasHttpPrefix(c.AnthropicEndpoint)
         THEN PlainErr(<<"anthropic_endpoint must be a valid URL">>)
    ELSE Nil

\* Config.validate
validate(c) ==
    IF c.ServerPort = "" THEN PlainErr(<<"server port cannot be empty">>)
    ELSE IF Atoi(c.ServerPort) = <<>>
         THEN Errorf(<<"server port must be a valid number:">>, PlainErr(<<"strconv.Atoi: invalid syntax">>))
    ELSE IF c.Timeout <= 0 THEN PlainErr(<<"timeout must be positive">>)
    ELSE IF c.Timeout > 300 THEN PlainErr(<<"timeout is too large (maximum 300 seconds)">>)
    ELSE IF c.OpenAIEndpoint # "" /\ ~HasHttpPrefix(c.OpenAIEndpoint)
         THEN PlainErr(<<"openai_endpoint must be a valid URL">>)
    ELSE IF c.AnthropicEndpoint # "" /\ ~HasHttpPrefix(c.AnthropicEndpoint)
         THEN PlainErr(<<"anthropic_endpoint must be a valid URL">>)
    ELSE IF c.OpenAIKey # "" /\ c.OpenAIEndpoint = ""
         THEN PlainErr(<<"openai_endpoint must be provided when openai_key is set">>)
    ELSE IF c.AnthropicKey # "" /\ c.AnthropicEndpoint = ""
         THEN PlainErr(<<"anthropic_endpoint must be provided when anthropic_key is set">>)
    ELSE Nil

\* the configurations validate is called on directly
FullConfigs ==
    [ServerPort : {"", "8080", "9000", "invalid", "-1"},
     OpenAIEndpoint : {"", DefaultOpenAIEndpoint, "invalid-url"},
     OpenAIKey : {"", "test-key"},
     AnthropicEndpoint : {"", DefaultAnthropicEndpoint, "invalid-url"},
     AnthropicKey : {"", "test-key"},
     Debug : {FALSE},
     Timeout : {-1, 0, 1, 30, 300, 301}]

\* the environment of the process: a variable that is not set reads as ""
Environments ==
    [PORT : {"", "9000", "invalid"},
     OPENAI_ENDPOINT : {"", "invalid-url"},
     OPENAI_API_KEY : {"", "test-env-openai-key"},
     ANTHROPIC_ENDPOINT : {"", "http://localhost:9999"},
     ANTHROPIC_API_KEY : {"", "test-env-anthropic-key"},
     DEBUG : {"", "true", "maybe"},
     TIMEOUT : {"", "60", "abc", "301"}]

\* -config not given, a file that cannot be read, and two files
NoFile == [kind |-> "none"]
UnreadableFile == [kind |-> "unreadable"]
ConfigFiles ==
    {NoFile, UnreadableFile,
     [kind |-> "file", Port |-> "7000", OpenAIEndpoint |-> "", OpenAIKey |-> "file-key",
      AnthropicEndpoint |-> "", AnthropicKey |-> "", Timeout |-> 45, Debug |-> TRUE],
     [kind |-> "file", Port |-> "", OpenAIEndpoint |-> AlibabaEndpoint, OpenAIKey |-> "",
      AnthropicEndpoint |-> "", AnthropicKey |-> "", Timeout |-> 0, Debug |-> FALSE]}

InitConfig ==
    /\ cfg \in ConcConfigs
    /\ translators = NewTranslatorService(cfg)
    /\ InitCalls({})
    /\ answer = NoAnswer
    /\ probe = NoProbe
    /\ http = NoHttp
    /\ \/ \E c \in FullConfigs : boot = [op |-> "validate", c |-> c, done |-> FALSE, err |-> Nil]
       \/ \E f \in ConfigFiles : \E env \in Environments :
              boot = [op |-> "NewConfig", stage |-> "defaults", c |-> DefaultConfig,
                      pre |-> DefaultConfig, file |-> f, env |-> env, err |-> Nil]

\* c.validate() called directly
ValidateCall ==
    /\ boot.op = "validate"
    /\ ~boot.done
    /\ boot' = [boot EXCEPT !.done = TRUE, !.err = validate(boot.c)]
    /\ UNCHANGED <<cfg, translators, reqs, text, model, answer, probe, http, callVars>>

\* NewConfig: the config file, when -config names one
LoadFile ==
    /\ boot.op = "NewConfig"
    /\ boot.stage = "defaults"
    /\ boot' = IF boot.file = NoFile THEN [boot EXCEPT !.stage = "file"]
               ELSE IF boot.file = UnreadableFile
               THEN [boot EXCEPT !.stage = "failed",
                                 !.err = Errorf(<<"failed to load config from file:">>,
                                                PlainErr(<<"no such file or directory">>))]
               ELSE [boot EXCEPT !.stage = "file", !.c = loadFromFile(boot.c, boot.file)]
    /\ UNCHANGED <<cfg, translators, reqs, text, model, answer, probe, http, callVars>>

\* NewConfig: config.loadFromEnv()
LoadEnv ==
    /\ boot.op = "NewConfig"
    /\ boot.stage = "file"
    /\ boot' = [boot EXCEPT !.stage = "env", !.pre = boot.c, !.c = loadFromEnv(boot.c, boot.env)]
    /\ UNCHANGED <<cfg, translators, reqs, text, model, answer, probe, http, callVars>>

\* NewConfig: config.validate(), then the return
ValidateLoaded ==
    /\ boot.op = "NewConfig"
    /\ boot.stage = "env"
    /\ boot' = IF validate(boot.c) # Nil
               THEN [boot EXCEPT !.stage = "failed",
                                 !.err = Errorf(<<"invalid configuration:">>, validate(boot.c))]
               ELSE [boot EXCEPT !.stage = "returned"]
    /\ UNCHANGED <<cfg, translators, reqs, text, model, answer, probe, http, callVars>>

NextConfig ==
    \/ ValidateCall
    \/ LoadFile
    \/ LoadEnv
    \/ ValidateLoaded

SpecConfig == InitConfig /\ [][NextConfig]_vars

----------------------------------------------------------------------------
(* The real translators called directly *)

RealTranslators ==
    {NewOpenAITranslator("sk-test", DefaultOpenAIEndpoint), NewAnthropicTranslator("ak-test")}

\* "Hi" and "你好": a translator does not validate the text
ProviderTexts == {<<72, 105>>, <<20320, 22909>>}

ProviderModels == {"gpt-4", "claude"}

\* the context when the call is made and when client.Do ends: a context that is
\* done stays done
ProviderContexts == {c \in CtxStates \X CtxStates : c[1] # "none" => c[2] = c[1]}

InitProvider ==
    /\ cfg \in ConcConfigs
    /\ translators = NewTranslatorService(cfg)
    /\ InitCalls({})
    /\ answer = NoAnswer
    /\ http = NoHttp
    /\ boot = NoBoot
    /\ \E p \in RealTranslators : \E t \in ProviderTexts : \E m \in ProviderModels :
       \E c \in ProviderContexts : \E rep \in UpstreamReplies(c[1], c[2]) :
          probe = [op |-> "Translate", translator |-> p, text |-> t, model |-> m,
                   reply |-> rep, done |-> FALSE, resp |-> Nil, err |-> Nil]

\* translator.Translate(ctx, req) of an OpenAITranslator or an AnthropicTranslator
TranslateCall ==
    /\ probe.op = "Translate"
    /\ ~probe.done
    /\ LET o == UpstreamOutcome(probe.translator, probe.text, probe.model, probe.reply)
       IN  probe' = [probe EXCEPT !.done = TRUE, !.resp = o.resp, !.err = o.err]
    /\ UNCHANGED <<cfg, translators, reqs, text, model, http, boot, answer, callVars>>

NextProvider ==
    \/ TranslateCall

SpecProvider == InitProvider /\ [][NextProvider]_vars

----------------------------------------------------------------------------
(* Properties *)

Calls(r) == Len(invoked[r])

Done(r) == pc[r] = "done"

\* a context error is never withdrawn: a context that is live now was never cancelled
NeverCancelled(r) == ctx[r] = "none"

\* a failure the loop classifies as retry-eligible under a live context
TransientFailure(s) == ~s.ok /\ ~s.marker

AllTransient(r) == trace[r] # <<>> /\ \A j \in 1..Len(trace[r]) : TransientFailure(trace[r][j])

\* C1: one call of Translate invokes the resolved translator at most 3 times,
\* whatever the request, the translator's outcomes and the moment of cancellation.
C1_AtMostThreeAttempts == \A r \in reqs : Calls(r) <= 3

C1_Witness == \E r \in reqs : Done(r) /\ Calls(r) = 3 /\ ctx[r] # "none"

\* C2: under a context that is never cancelled, when the first success comes on
\* attempt k after k-1 transient failures, Translate has returned exactly that
\* response with a nil error, the translator was invoked exactly k times and nothing
\* follows the success; Translate gives up on transient failures only after attempt 3,
\* so fail, fail, succeed ends in the success after exactly 3 invocations.
C2_FirstSuccessReturned ==
    \A r \in reqs :
        /\ \A k \in 1..Len(trace[r]) :
              (/\ NeverCancelled(r)
               /\ trace[r][k].ok
               /\ \A j \in 1..(k - 1) : TransientFailure(trace[r][j]))
              => /\ k = Len(trace[r])
                 /\ k <= 3
                 /\ Calls(r) = k
                 /\ Done(r)
                 /\ last[r].err = Nil
                 /\ result[r] = [resp |-> last[r].resp, err |-> Nil]
        /\ (Done(r) /\ NeverCancelled(r) /\ AllTransient(r)) => Len(trace[r]) = 3

C2_Witness ==
    \E r \in reqs :
        /\ Done(r) /\ NeverCancelled(r)
        /\ Len(trace[r]) = 3 /\ trace[r][3].ok
        /\ TransientFailure(trace[r][1]) /\ TransientFailure(trace[r][2])
        /\ result[r].resp # Nil /\ result[r].err = Nil

\* C3: under a context that is never cancelled, a translator that fails transiently
\* on every attempt makes Translate return, after exactly 3 invocations, a nil
\* response and an error that names the requested model, says the retries are
\* used up and wraps the error of the third attempt.
C3_ExhaustedAfterThree ==
    \A r \in reqs :
        (Done(r) /\ NeverCancelled(r) /\ AllTransient(r))
        => /\ Calls(r) = 3
           /\ result[r].resp = Nil
           /\ result[r].err # Nil
           /\ Contains(Head(result[r].err).msg, model[r])
           /\ Contains(Head(result[r].err).msg, "after retries:")
           /\ Unwrap(result[r].err) = last[r].err
           /\ last[r].err # Nil

C3_Witness ==
    \E r \in reqs :
        /\ Done(r) /\ NeverCancelled(r) /\ AllTransient(r)
        /\ Calls(r) = 3
        /\ Unwrap(result[r].err) = PlainErr(<<"API returned empty translation">>)

\* C4: no invocation of the translator begins while the context is already done.
C4_NoAttemptUnderDoneContext ==
    \A r \in reqs : \A i \in 1..Len(invoked[r]) : invoked[r][i] = "none"

\* C5: when Translate stops because the context is done (seen after a failed attempt
\* or in the backoff wait), the error it returns is the context's error or wraps it.
C5_CancellationIsDistinguishable ==
    \A r \in reqs :
        (Done(r) /\ exit[r] \in {"ctxbreak", "waitcancel"})
        => (result[r].err # Nil /\ ErrorsIs(result[r].err, ctx[r]))

\* C6: when the context is already done before the first attempt, Translate returns
\* a cancellation error and the translator is invoked at most once.
C6_CancelledBeforeFirstAttempt ==
    \A r \in reqs :
        (Done(r) /\ invoked[r] # <<>> /\ invoked[r][1] # "none")
        => (Calls(r) <= 1 /\ result[r].err # Nil /\ ErrorsIs(result[r].err, ctx[r]))

\* C7: the backoff wait is cancellable.  A call blocked in the wait never has a done
\* context: the context ending while the timer still runs ends the wait by the Done
\* case; the Done case makes Translate return a nil response with exactly ctx.Err(),
\* and no attempt follows the wait that was cut short.
C7_BackoffWaitCancellable ==
    /\ [](\A r \in reqs :
            /\ pc[r] = "parked" => (ctx[r] = "none" /\ Remaining(r) > 0)
            /\ (pc[r] = "selected" /\ ctx[r] # "none" /\ Remaining(r) > 0) => sel[r] = "ctx"
            /\ exit[r] = "waitcancel"
               => /\ Done(r)
                  /\ ctx[r] # "none"
                  /\ result[r] = [resp |-> Nil, err |-> CtxError(ctx[r])]
                  /\ Calls(r) = Len(waits[r]))
    /\ [][\A r \in reqs :
            (pc[r] = "selected" /\ sel[r] = "ctx")
            => (invoked'[r] = invoked[r]
                /\ (pc'[r] # pc[r] => (pc'[r] = "done" /\ exit'[r] = "waitcancel")))]_vars

C7_Witness ==
    \E r \in reqs :
        /\ exit[r] = "waitcancel"
        /\ Len(waits[r]) = 2
        /\ waits[r][2].elapsed = 100
        /\ result[r].err = CtxError("deadline")

\* C8: the wait armed after failed attempt k lasts k x 100 ms: attempt 2 begins only
\* after a full 100 ms wait, attempt 3 only after a full 200 ms wait, nothing is
\* waited before attempt 1 and nothing after a failed attempt 3.
C8_BackoffDelays ==
    \A r \in reqs :
        LET n == Calls(r)
            w == Len(waits[r])
        IN  /\ w <= 2
            /\ \A i \in 1..w : /\ waits[r][i].delay = i * 100
                               /\ waits[r][i].elapsed <= waits[r][i].delay
            /\ n = 0 => w = 0
            /\ n >= 1 => w \in {n - 1, n}
            /\ n >= 3 => w = 2
            /\ \A i \in 1..(n - 1) : i <= w /\ waits[r][i].elapsed = i * 100

C8_Witness ==
    \E r \in reqs :
        /\ Calls(r) = 3 /\ Done(r)
        /\ waits[r] = <<[delay |-> 100, elapsed |-> 100], [delay |-> 200, elapsed |-> 200]>>

\* C9: after an attempt that failed with an error of the validation kind, whatever
\* its text, no further attempt is made.
C9_ValidationKindNotRetried ==
    \A r \in reqs : \A i \in 1..Len(trace[r]) : trace[r][i].validation => Calls(r) <= i

\* C10: under a live context every failure that is not of the validation kind is
\* retried while attempts remain, whatever its text: Translate gives up on such
\* failures only after the third attempt.
C10_NonValidationFailuresRetried ==
    \A r \in reqs :
        (/\ Done(r) /\ NeverCancelled(r)
         /\ trace[r] # <<>>
         /\ \A j \in 1..Len(trace[r]) : ~trace[r][j].ok /\ ~trace[r][j].validation)
        => Calls(r) = 3

\* C11: a request whose text fails ValidateTextInput is answered at once with the
\* validation error of the text, whatever its model (valid, unknown or empty): the
\* text is judged before the model, no translator is looked up or invoked, nothing
\* is retried and nothing is waited for.
C11_InvalidTextShortCircuits ==
    \A r \in reqs :
        ValidateTextInput(text[r]) # Nil
        => /\ Calls(r) = 0 /\ trace[r] = <<>> /\ waits[r] = <<>>
           /\ pc[r] \in {"start", "done"}
           /\ Done(r) => /\ exit[r] = "validation"
                         /\ result[r].resp = Nil
                         /\ result[r].err = Errorf(<<"validation error:">>, ValidateTextInput(text[r]))
                         /\ IsValidationError(Unwrap(result[r].err))

C11_Witness ==
    \E r \in reqs :
        /\ Done(r)
        /\ text[r] = <<72, 1>>
        /\ model[r] = "GPT-4"
        /\ Unwrap(result[r].err) = NewValidationError(<<"Text contains invalid characters">>)

\* the request's model is empty or is not a key of the registry
BadModel(r) == model[r] = "" \/ model[r] \notin DOMAIN translators

\* C12: a request with a valid text whose model is empty or not a key of the
\* registry is answered at once with a nil response and an error that says
\* "validation error:" or "unsupported model:"; no translator is ever invoked.
C12_BadModelShortCircuits ==
    \A r \in reqs :
        (ValidateTextInput(text[r]) = Nil /\ BadModel(r))
        => /\ Calls(r) = 0 /\ trace[r] = <<>> /\ waits[r] = <<>>
           /\ pc[r] \in {"start", "done"}
           /\ Done(r) => /\ exit[r] \in {"validation", "unsupported"}
                         /\ result[r].resp = Nil
                         /\ result[r].err # Nil
                         /\ \/ Contains(ErrorMsg(result[r].err), "validation error:")
                            \/ Contains(ErrorMsg(result[r].err), "unsupported model:")

C12_Witness ==
    \E r \in reqs :
        /\ Done(r)
        /\ text[r] = <<72, 105>>
        /\ model[r] = "GPT-4"
        /\ result[r].err = Errorf(<<"validation error:">>, NewValidationError(<<"Unsupported model: ", "GPT-4">>))

\* C13: every return of Translate carries exactly one of a response and an error.
C13_ResponseXorError ==
    \A r \in reqs :
        Done(r) => \/ (result[r].resp # Nil /\ result[r].err = Nil)
                   \/ (result[r].resp = Nil /\ result[r].err # Nil)

\* C14: a valid request resolved to a mock translator under a context that stays
\* live is answered with a response whose original is the request's text, whose
\* translation is not empty and whose model is the requested model identifier.
C14_StandInEchoesRequest ==
    \A r \in reqs :
        (/\ Done(r) /\ NeverCancelled(r)
         /\ ValidateTextInput(text[r]) = Nil
         /\ ~BadModel(r)
         /\ translators[model[r]].kind = "mock")
        => /\ result[r].err = Nil
           /\ result[r].resp # Nil
           /\ result[r].resp[1].original = text[r]
           /\ result[r].resp[1].translation # [by |-> "", text |-> <<>>]
           /\ result[r].resp[1].model = model[r]

\* C15: the attempts of one call are strictly sequential: at most one invocation
\* of the translator is in flight, it is in flight exactly while the call is inside
\* translator.Translate, and attempt n+1 has begun only after attempt n returned and
\* the backoff wait armed after it ran its full time.
C15_AttemptsSequential ==
    \A r \in reqs :
        /\ Calls(r) - Len(trace[r]) \in {0, 1}
        /\ (pc[r] = "inflight") <=> (Calls(r) = Len(trace[r]) + 1)
        /\ \A n \in 2..Calls(r) :
              /\ Len(trace[r]) >= n - 1
              /\ Len(waits[r]) >= n - 1
              /\ waits[r][n - 1].elapsed >= waits[r][n - 1].delay
        /\ pc[r] \in {"select", "parked", "selected"} => Len(waits[r]) = Calls(r)

C15_Witness ==
    \E r \in reqs :
        /\ pc[r] = "inflight"
        /\ Calls(r) = 3
        /\ Len(trace[r]) = 2
        /\ waits[r][2].elapsed = 200

\* C16: once NewTranslatorService has returned, ts.translators is the mapping it
\* built and no step of any Translate, GetSupportedModels or IsModelSupported call
\* changes it, however two Translate calls and the readers interleave: every call
\* resolves its model in that one mapping and every reader is answered from it.
C16_RegistryNeverMutated ==
    /\ [](/\ translators = NewTranslatorService(cfg)
          /\ \A r \in reqs : translator[r] # Nil => translator[r][1] = NewTranslatorService(cfg)[model[r]]
          /\ answer.op = "GetSupportedModels" => answer.models = DOMAIN NewTranslatorService(cfg)
          /\ answer.op = "IsModelSupported"
             => answer.supported = (answer.model \in DOMAIN NewTranslatorService(cfg)))
    /\ [][translators' = translators]_vars

C16_Witness ==
    /\ \A r \in reqs : Done(r)
    /\ exit[1] = "success" /\ exit[2] = "validation"
    /\ model[2] = "GPT-4" /\ text[2] # <<>>
    /\ answer.op = "IsModelSupported" /\ answer.model = "GPT-4" /\ ~answer.supported

\* C17: whenever two Translate calls have resolved the same model identifier they
\* hold the same translator instance, and every instance a call holds is the one
\* registered for its model when the service was constructed.
C17_SameInstancePerModel ==
    \A r1 \in reqs : \A r2 \in reqs :
        (translator[r1] # Nil /\ translator[r2] # Nil)
        => /\ model[r1] = model[r2] => translator[r1] = translator[r2]
           /\ translator[r1][1] = registerTranslators(cfg)[model[r1]]

C17_Witness ==
    /\ model[1] = "llama" /\ model[2] = "llama"
    /\ Done(1) /\ Done(2)
    /\ translator[1] = <<NewMockTranslator("Llama")>>
    /\ translator[2] = translator[1]

\* a network-backed translator, as opposed to a stand-in
IsReal(t) == t.kind \in {"openai", "anthropic"}

\* C18: under every configuration the registry has gpt-4, gpt-3.5, claude-3-opus,
\* claude-3-sonnet, claude-3-haiku, claude and llama; the GPT models resolve to a
\* network-backed translator exactly when the OpenAI key is set, the Claude models
\* exactly when the Anthropic key is set, and llama to a stand-in.
C18_DocumentedModelsRegistered ==
    /\ {"gpt-4", "gpt-3.5", "claude-3-opus", "claude-3-sonnet", "claude-3-haiku", "claude", "llama"}
          \subseteq GetSupportedModels(translators)
    /\ \A m \in {"gpt-4", "gpt-3.5"} : IsReal(translators[m]) <=> HasOpenAIKey(cfg)
    /\ \A m \in {"claude-3-opus", "claude-3-sonnet", "claude-3-haiku", "claude"} :
          IsReal(translators[m]) <=> HasAnthropicKey(cfg)
    /\ ~IsReal(translators["llama"])

\* the text is empty or has nothing but white space
WhitespaceOnly(t) == \A i \in 1..Len(t) : IsSpace(t[i])

\* C19: ValidateTextInput fails for every text that is empty or consists only of
\* white space: it returns the ValidationError "Text input cannot be empty".
C19_BlankTextRejected ==
    (probe.op = "ValidateTextInput" /\ probe.done /\ WhitespaceOnly(probe.text))
    => /\ IsValidationError(probe.err)
       /\ probe.err = NewValidationError(<<"Text input cannot be empty">>)

C19_Witness ==
    /\ probe.op = "ValidateTextInput" /\ probe.done
    /\ probe.text = <<32, 9, 160>>
    /\ probe.err # Nil

\* the checks of ValidateTextInput other than the length limit
PassesOtherChecks(t) ==
    /\ ~WhitespaceOnly(t)
    /\ ~containsInvalidCharacters(t)
    /\ containsEnglishCharacters(t)

\* C20: the length limit of ValidateTextInput is on the number of characters of the
\* text: a text of more than 10,000 characters fails, a text of at most 10,000
\* characters is not rejected for its length, and one of exactly 10,000 characters
\* that passes the other checks succeeds.
C20_LimitCountsCharacters ==
    (probe.op = "ValidateTextInput" /\ probe.done)
    => /\ Len(probe.text) > 10000 => probe.err # Nil
       /\ (Len(probe.text) = 10000 /\ PassesOtherChecks(probe.text)) => probe.err = Nil
       /\ probe.err = NewValidationError(<<"Text input is too long (maximum 10000 characters)">>)
          => Len(probe.text) > 10000

\* a code point the validator does not allow: below 0x20 other than tab, line feed
\* and carriage return, or in 0x7F..0x9F
Disallowed(cp) == (cp < 32 /\ cp \notin {9, 10, 13}) \/ (cp >= 127 /\ cp <= 159)

HasDisallowed(t) == \E i \in 1..Len(t) : Disallowed(t[i])

InvalidCharactersError == NewValidationError(<<"Text contains invalid characters">>)

\* C21: ValidateTextInput fails for every text that has a disallowed control
\* character (with "Text contains invalid characters" when the text is neither blank
\* nor too long), and a text without one, whatever tabs, line feeds and carriage
\* returns it has, never fails for its characters.
C21_ControlCharactersRejected ==
    (probe.op = "ValidateTextInput" /\ probe.done)
    => /\ HasDisallowed(probe.text) => IsValidationError(probe.err)
       /\ (HasDisallowed(probe.text) /\ ~WhitespaceOnly(probe.text) /\ ByteLen(probe.text) <= 10000)
          => probe.err = InvalidCharactersError
       /\ ~HasDisallowed(probe.text) => probe.err # InvalidCharactersError
       /\ probe.text \in {<<72, 9>>, <<72, 13, 9>>} => probe.err = Nil

C21_Witness ==
    /\ probe.op = "ValidateTextInput" /\ probe.done
    /\ probe.text = <<72, 9, 159>>
    /\ probe.err = InvalidCharactersError

\* the ASCII letters, the ASCII bytes and the ASCII characters of a text
HasAsciiLetter(t) == \E i \in 1..Len(t) : IsAsciiLetter(t[i])
AsciiCount(t) == Cardinality({i \in 1..Len(t) : t[i] <= 127})

\* C22: ValidateTextInput fails for every text without an ASCII letter whose ASCII
\* bytes are at most 0.8 of its bytes, and succeeds for "Hello 你好 world".
C22_NonEnglishRejected ==
    (probe.op = "ValidateTextInput" /\ probe.done)
    => /\ (~HasAsciiLetter(probe.text) /\ 5 * AsciiCount(probe.text) <= 4 * ByteLen(probe.text))
          => probe.err # Nil
       /\ probe.text = <<72, 101, 108, 108, 111, 32, 20320, 22909, 32, 119, 111, 114, 108, 100>>
          => probe.err = Nil

\* C23: for a text that is not blank, not too long and free of disallowed control
\* characters, ValidateTextInput succeeds exactly when the text has an ASCII letter
\* or more than 0.8 of its characters have a code point of at most 127.
C23_LanguageGate ==
    (/\ probe.op = "ValidateTextInput" /\ probe.done
     /\ ~WhitespaceOnly(probe.text)
     /\ ByteLen(probe.text) <= 10000
     /\ ~HasDisallowed(probe.text))
    => (probe.err = Nil
        <=> (HasAsciiLetter(probe.text) \/ 5 * AsciiCount(probe.text) > 4 * Len(probe.text)))

\* C24: ValidateModelInput succeeds exactly when the model is not blank and is, as
\* it is written, an element of the supported-model list; every failure is a
\* ValidationError.
C24_ModelExactMatch ==
    (probe.op = "ValidateModelInput" /\ probe.done)
    => /\ probe.err = Nil <=> (probe.model \notin {"", " "} /\ probe.model \in probe.supported)
       /\ probe.err # Nil => IsValidationError(probe.err)

C24_Witness ==
    /\ probe.op = "ValidateModelInput" /\ probe.done
    /\ probe.model = "GPT-3.5"
    /\ probe.supported = {"gpt-3.5"}
    /\ probe.err = NewValidationError(<<"Unsupported model: ", "GPT-3.5">>)

\* C25: IsValidationError is true of every error a failed text or model validation
\* produces, the validation failures Translate returns among them.
C25_ValidationFailuresRecognised ==
    \A r \in reqs : (Done(r) /\ exit[r] = "validation") => IsValidationError(result[r].err)

\* a handler has answered with what Translate returned as its error
AnsweredError(r) == http.state = "responded" /\ Done(r) /\ result[r].err # Nil

\* the error is a validation failure or an unsupported model by its origin: made by
\* Translate before its loop, or a ValidationError of the translator
IsRequestFault(r) ==
    \/ exit[r] \in {"validation", "unsupported"}
    \/ \E i \in 1..Len(result[r].err) : result[r].err[i].kind = "validation"

\* C26: for every error Translate returns, the handler's status is 400 for a
\* validation or unsupported-model error, 408 for an elapsed deadline, 400 for a
\* cancelled context and 503 for every other failure; exhausted retries give 503.
C26_StatusByErrorKind ==
    \A r \in reqs :
        AnsweredError(r)
        => /\ http.status =
                 (IF IsRequestFault(r) THEN 400
                  ELSE IF ErrorsIs(result[r].err, "deadline") THEN 408
                  ELSE IF ErrorsIs(result[r].err, "canceled") THEN 400
                  ELSE 503)
           /\ exit[r] = "exhausted" => http.status = 503

\* C27: both handlers answer a request that is not a POST with 405 and a POST with
\* a blank text or a blank model with 400, and in neither case is Translate called:
\* Translate is called only for a POST with a text and a model that are not blank.
C27_RejectedBeforeTranslate ==
    \A r \in reqs :
        /\ http.state \in {"translating", "responded"}
        => LET q == http.request
               blank == WhitespaceOnly(q.text) \/ q.model \in {"", " "}
               called == http.state = "translating" \/ Done(r)
           IN  /\ q.method # "POST" => (http.status = 405 /\ ~called)
               /\ (q.method = "POST" /\ blank) => (http.status = 400 /\ ~called)
               /\ ~called => (pc[r] = "start" /\ Calls(r) = 0 /\ http.state = "responded")
               /\ called => (/\ text[r] # <<>> /\ ~IsSpace(Head(text[r]))
                             /\ ~IsSpace(text[r][Len(text[r])])
                             /\ model[r] \notin {"", " ", " gpt-4 "})

C27_Witness ==
    /\ http.state = "responded"
    /\ http.request.handler = "form"
    /\ http.request.method = "POST"
    /\ http.request.text = <<32, 72, 105, 32>>
    /\ http.request.model = " "
    /\ http.status = 400
    /\ pc[1] = "start"

\* C28: every error response of the API handler to a POST has a JSON body with
\* error = true, a message and details.
C28_ApiErrorsAreJson ==
    (/\ http.state = "responded"
     /\ http.request.handler = "api"
     /\ http.request.method = "POST"
     /\ http.status >= 400)
    => /\ http.body.type = "application/json"
       /\ http.body.error = TRUE
       /\ http.body.message # <<>>
       /\ http.body.details # <<>>

\* the port is a number: it parses as a decimal integer
NumericPort(port) == port \in {"8080", "9000", "7000", "-1"}

StartsWithHttp(endpoint) == endpoint \in {"https://api.openai.com/v1", "https://api.anthropic.com/v1"}

\* C29: Config.validate accepts a configuration exactly when its port is not empty
\* and numeric, its timeout is in 1..300, each endpoint is empty or starts with
\* "http", and no key is set with an empty endpoint.
C29_ValidateAcceptsExactly ==
    (boot.op = "validate" /\ boot.done)
    => (boot.err = Nil
        <=> /\ boot.c.ServerPort # "" /\ NumericPort(boot.c.ServerPort)
            /\ boot.c.Timeout \in 1..300
            /\ boot.c.OpenAIEndpoint = "" \/ StartsWithHttp(boot.c.OpenAIEndpoint)
            /\ boot.c.AnthropicEndpoint = "" \/ StartsWithHttp(boot.c.AnthropicEndpoint)
            /\ ~(boot.c.OpenAIKey # "" /\ boot.c.OpenAIEndpoint = "")
            /\ ~(boot.c.AnthropicKey # "" /\ boot.c.AnthropicEndpoint = ""))

C29_Witness ==
    /\ boot.op = "validate" /\ boot.done
    /\ boot.c.ServerPort = "9000" /\ boot.c.Timeout = 300
    /\ boot.c.OpenAIKey = "test-key" /\ boot.c.OpenAIEndpoint = "https://api.openai.com/v1"
    /\ boot.c.AnthropicKey = "" /\ boot.c.AnthropicEndpoint = ""
    /\ boot.err = Nil

\* the value a string variable of the environment gives a field
EnvString(value, before) == IF value # "" THEN value ELSE before

\* C30: NewConfig applies the defaults, then the config file, then the
\* environment: after loadFromEnv each field whose variable is set, not empty and
\* parseable has the variable's value, and every other field has the value it had
\* before (the default, or the file's value where the file gave one).
C30_EnvironmentOverrides ==
    (boot.op = "NewConfig" /\ boot.stage \in {"env", "returned"})
    => /\ boot.pre = (IF boot.file = NoFile THEN DefaultConfig ELSE loadFromFile(DefaultConfig, boot.file))
       /\ boot.c.ServerPort = EnvString(boot.env.PORT, boot.pre.ServerPort)
       /\ boot.c.OpenAIEndpoint = EnvString(boot.env.OPENAI_ENDPOINT, boot.pre.OpenAIEndpoint)
       /\ boot.c.OpenAIKey = EnvString(boot.env.OPENAI_API_KEY, boot.pre.OpenAIKey)
       /\ boot.c.AnthropicEndpoint = EnvString(boot.env.ANTHROPIC_ENDPOINT, boot.pre.AnthropicEndpoint)
       /\ boot.c.AnthropicKey = EnvString(boot.env.ANTHROPIC_API_KEY, boot.pre.AnthropicKey)
       /\ boot.c.Debug = (IF boot.env.DEBUG = "true" THEN TRUE ELSE boot.pre.Debug)
       /\ boot.c.Timeout = (IF boot.env.TIMEOUT = "60" THEN 60
                            ELSE IF boot.env.TIMEOUT = "301" THEN 301 ELSE boot.pre.Timeout)

C30_Witness ==
    /\ boot.op = "NewConfig" /\ boot.stage = "returned"
    /\ boot.file # NoFile
    /\ boot.env.PORT = "9000" /\ boot.env.TIMEOUT = "abc" /\ boot.env.DEBUG = "maybe"
    /\ boot.c.ServerPort = "9000" /\ boot.c.Timeout = 45 /\ boot.c.Debug = TRUE
    /\ boot.c.OpenAIKey = "file-key"

\* the log lines of a call, by kind
DiagnosticLines(r) == Cardinality({i \in 1..Len(logs[r]) : logs[r][i] = "attempt failed"})
SummaryLines(r) == Cardinality({i \in 1..Len(logs[r]) : logs[r][i] = "failed after retries"})

FailedAttempts(r) == Cardinality({j \in 1..Len(trace[r]) : ~trace[r][j].ok})

\* C31: Translate writes exactly one diagnostic line per failed attempt, and the
\* summary line exactly when all 3 attempts were used up without a success; a call
\* that ends by the validation or unsupported-model short-circuit, or because the
\* context is done, writes no summary line.
C31_LoggingPerAttempt ==
    \A r \in reqs :
        /\ DiagnosticLines(r) = FailedAttempts(r)
        /\ Done(r) => /\ SummaryLines(r) = (IF Calls(r) = 3 /\ FailedAttempts(r) = 3 THEN 1 ELSE 0)
                      /\ exit[r] \in {"validation", "unsupported", "ctxbreak", "waitcancel"}
                         => SummaryLines(r) = 0

\* the call resolved to the stand-in provider
OnStandIn(r) == translator[r] # Nil /\ translator[r][1].kind = "mock"

\* C32: the stand-in provider does not block past the caller's deadline: it spends
\* no part of its simulated latency under a context that is done (already expired
\* when it is called, or expiring while it sleeps), it then returns the context's
\* error, and it never returns a response under a done context.
C32_StandInHonoursDeadline ==
    \A r \in reqs :
        OnStandIn(r)
        => /\ nap[r].late = 0
           /\ (trace[r] # <<>> /\ ctx[r] # "none" /\ pc[r] = "failed") => last[r].err = CtxError(ctx[r])
           /\ (trace[r] # <<>> /\ last[r].resp # Nil) => ctx[r] = "none"

\* the upstream gave a usable translation: the exchange succeeded, the status is
\* 200, the payload parses and carries no error, and its first item is not empty
UsableReply(p, rep) ==
    /\ rep.fault = Nil /\ rep.readErr = Nil
    /\ rep.status = 200
    /\ rep.payload.parses
    /\ IF p.kind = "openai" THEN rep.payload.errMessage = "" ELSE rep.payload.errType = ""
    /\ rep.payload.items # <<>>
    /\ rep.payload.items[1] # NoContent

\* C33: a real translator returns a response exactly when the transport call
\* succeeded, the status is 200, the payload parses, the payload reports no error
\* and its first content item is not empty; otherwise it returns an error and no
\* response.  A response has a non-empty translation (the first item), the
\* request's text as original and the request's model.
C33_RealProviderOutcome ==
    (probe.op = "Translate" /\ probe.done)
    => /\ (probe.resp # Nil) <=> UsableReply(probe.translator, probe.reply)
       /\ (probe.resp = Nil) <=> (probe.err # Nil)
       /\ probe.resp # Nil
          => /\ probe.resp[1].translation # NoContent
             /\ probe.resp[1].translation = probe.reply.payload.items[1]
             /\ probe.resp[1].original = probe.text
             /\ probe.resp[1].model = probe.model

C33_Witness ==
    /\ probe.op = "Translate" /\ probe.done
    /\ probe.translator.kind = "anthropic"
    /\ probe.reply.payload.items = <<UpstreamContent, NoContent>>
    /\ probe.resp = Response(<<20320, 22909>>, UpstreamContent, "claude")

\* C34: under every configuration, each model identifier that NewTranslatorService
\* registers resolves to a translator that declares it supports that identifier.
C34_RegisteredModelsSupported ==
    \A m \in DOMAIN NewTranslatorService(cfg) : SupportsModel(NewTranslatorService(cfg)[m], m)

\* C35: on a registry that is not modified after construction the three views of
\* it agree for every model string: IsModelSupported(m), m being an element of
\* GetSupportedModels(), and the lookup in Translate finding a translator.  So a
\* model the registry does not know is rejected by the validation of the model, and
\* Translate never returns the "unsupported model" error of its lookup.
C35_RegistryViewsAgree ==
    /\ \A m \in Models :
          /\ IsModelSupported(translators, m) <=> (m \in GetSupportedModels(translators))
          /\ IsModelSupported(translators, m) <=> (Lookup(translators, m) # Nil)
    /\ \A r \in reqs :
          /\ exit[r] # "unsupported"
          /\ translator[r] # Nil => IsModelSupported(translators, model[r])
          /\ (Done(r) /\ ValidateTextInput(text[r]) = Nil /\ ~IsModelSupported(translators, model[r]))
             => /\ exit[r] = "validation"
                /\ IsValidationError(Unwrap(result[r].err))
                /\ Calls(r) = 0

C35_Witness ==
    \E r \in reqs :
        /\ Done(r)
        /\ model[r] = "test-model"
        /\ ~IsModelSupported(translators, "test-model")
        /\ exit[r] = "validation"
        /\ Unwrap(result[r].err) = NewValidationError(<<"Unsupported model: ", "test-model">>)

\* the call has made its last attempt: it left the loop, or its third attempt failed
LastAttemptOver(r) == pc[r] \in {"afterloop", "done"} \/ (pc[r] = "failed" /\ attempt[r] = 2)

\* C36: provided every translator call returns, Translate returns, whatever the
\* translator answers and whenever the context ends; it makes at most 3 translator
\* calls and at most 2 backoff waits, it is never in a wait during its third turn,
\* and after its last attempt it neither calls the translator nor waits again.
C36_TranslateTerminates ==
    /\ <>(\A r \in reqs : Done(r))
    /\ [](\A r \in reqs :
            /\ Calls(r) <= 3
            /\ Len(waits[r]) <= 2
            /\ attempt[r] >= 2 => pc[r] \notin {"select", "parked", "selected"})
    /\ [][\A r \in reqs :
            LastAttemptOver(r) => (invoked'[r] = invoked[r] /\ waits'[r] = waits[r]
                                   /\ pc'[r] \in {pc[r], "afterloop", "done"})]_vars

C36_Witness ==
    \E r \in reqs :
        /\ Done(r)
        /\ exit[r] = "exhausted"
        /\ Calls(r) = 3 /\ Len(waits[r]) = 2
        /\ ctx[r] = "canceled"

\* everything one Translate call reads and writes of its own
CallState(r) ==
    <<text[r], model[r], ctx[r], translator[r], nap[r], pc[r], attempt[r], response[r], err[r],
      sel[r], waits[r], result[r], exit[r], logs[r], invoked[r], trace[r], last[r]>>

\* what a call returns and how often it calls its translator, from its own text,
\* model and context and the outcomes its own translator calls had
OwnOutcome(r) ==
    LET pre == PreLoop(text[r], model[r], translators)
        n == Len(trace[r])
    IN  /\ Calls(r) = n
        /\ IF pre.err # Nil
           THEN n = 0 /\ result[r] = [resp |-> Nil, err |-> pre.err]
           ELSE /\ n \in 1..3
                /\ \A j \in 1..(n - 1) : ~trace[r][j].ok /\ ~trace[r][j].marker
                /\ IF trace[r][n].ok
                   THEN result[r] = [resp |-> last[r].resp, err |-> Nil]
                   ELSE IF exit[r] = "waitcancel"
                   THEN /\ result[r] = BackoffCancelled(ctx[r])
                        /\ Len(waits[r]) = n /\ n <= 2
                   ELSE /\ result[r] = [resp |-> Nil, err |-> ExhaustedError(model[r], last[r].err)]
                        /\ n = 3 \/ ctx[r] # "none" \/ trace[r][n].marker

\* C37: concurrent Translate calls on one service do not interfere.  No step
\* changes the registry or the state of two calls at once (a step of one call
\* leaves every other call as it was), and what a call returns and its number of
\* translator calls follow from its own text, model, context and translator
\* outcomes, by the rule that holds for a call that runs alone.
C37_CallsDoNotInterfere ==
    /\ [](\A r \in reqs : Done(r) => OwnOutcome(r))
    /\ [][/\ translators' = translators
          /\ \A r, q \in reqs :
                r # q => (CallState(r)' = CallState(r) \/ CallState(q)' = CallState(q))]_vars

C37_Witness ==
    \E r, q \in reqs :
        /\ r # q
        /\ Done(r) /\ exit[r] = "exhausted" /\ Calls(r) = 3
        /\ pc[q] = "inflight" /\ nap[q].slept = LatencyStepMs

====
